---- MODULE Spec2Model ----
(***************************************************************************)
(* Verification model of the DHT core of torrent-rs: the routing table     *)
(* (dht/src/routing.rs, dht/src/id.rs), the storage engine                 *)
(* (dht/src/storage.rs) and the borrowing bencode codec                    *)
(* (bencode/src/value_ref.rs, bencode/src/reader.rs).                      *)
(***************************************************************************)
EXTENDS Integers, Sequences, FiniteSets, TLC

VARIABLES
    now,          \* the reading of Instant::now(), in model time units
    rt_node,      \* RoutingTable.node: the id of the local node
    rt_ksize,     \* RoutingTable.ksize
    rt_buckets,   \* RoutingTable.buckets: Vec<Bucket>
    rt_status,    \* "ok", or how the process ended: "panic" / "overflow"
    rt_call,      \* the find_neighbours or welcome_if_new call that has
                  \* returned and whose caller has not gone on yet
    build,        \* the build profile: "debug" or "release"
    st_settings,  \* DefaultDhtStorage.settings
    st_node_ids,  \* DefaultDhtStorage.node_ids
    st_map,       \* DefaultDhtStorage.map: info hash -> TorrentEntry
    st_immutable, \* DefaultDhtStorage.immutable_table
    st_mutable,   \* DefaultDhtStorage.mutable_table
    st_counters,  \* DefaultDhtStorage.counters
    st_status,    \* "ok", or "panic" once a storage call has panicked
    put_max_seq,  \* history: per stored mutable target, the largest seq put
                  \* since the target was inserted
    put_hist,     \* history: per stored item, the addresses that put it
                  \* and the bytes of its first put, since it was inserted
    st_call,      \* the announce_peer or get_peers call that has returned
                  \* and whose caller has not gone on yet
    bc_pc,          \* the codec's step: "value", "bytes" or "done"
    bc_value,       \* the ValueRef handed to encode
    bc_bytes,       \* the bytes written by encode, handed to decode
    bc_depth_limit, \* decode_with_limits's depth_limit
    bc_item_limit,  \* decode_with_limits's item_limit
    bc_result,      \* what decode_with_limits returned
    io_arg,         \* the object handed to save, or the operands of a shift
    io_ret          \* what read returned for the saved object, or the
                    \* shifted value

rt_vars == <<rt_node, rt_ksize, rt_buckets, rt_status, rt_call>>

st_vars == <<build, st_settings, st_node_ids, st_map, st_immutable,
             st_mutable, st_counters, st_status, put_max_seq, put_hist,
             st_call>>

bc_vars == <<bc_pc, bc_value, bc_bytes, bc_depth_limit, bc_item_limit,
             bc_result, io_arg, io_ret>>

\* ------------------------------------------------------------------------
\* Bounds of the model
\* ------------------------------------------------------------------------
MaxTime == 1          \* the clock is advanced at most this many times
MaxRecursion == 6     \* nested add_contact calls the stack has room for
MaxBuckets == 4       \* add_contact is called on tables of fewer buckets
MaxCount == 4         \* put_mutable_item is called below this item count
MaxNest == 4          \* the deepest nest of lists handed to the codec
MaxLimit == 3         \* the largest depth limit handed to decode_with_limits
MaxItemLimit == 4     \* the largest item limit handed to decode_with_limits
MaxStrings == 4       \* the longest list of empty strings handed to the codec
MaxDigits == 3        \* the longest body of a short integer token's text

\* ------------------------------------------------------------------------
\* 160-bit ids (dht/src/id.rs): a big-endian array of SIZE bytes
\* ------------------------------------------------------------------------
SIZE == 20

\* An id given by its leading bytes, the remaining bytes all equal to fill.
IdFrom(prefix, fill) ==
    [i \in 1..SIZE |-> IF i <= Len(prefix) THEN prefix[i] ELSE fill]

MinId == IdFrom(<<>>, 0)
MaxId == IdFrom(<<>>, 255)

\* derived Ord on [u8; SIZE]: lexicographic
IdLess(a, b) ==
    \E i \in 1..SIZE : a[i] < b[i] /\ \A j \in 1..(i - 1) : a[j] = b[j]

IdLeq(a, b) == a = b \/ IdLess(a, b)

RECURSIVE XorBits(_, _, _)
XorBits(a, b, n) ==
    IF n = 0 THEN 0
    ELSE (((a % 2) + (b % 2)) % 2) + 2 * XorBits(a \div 2, b \div 2, n - 1)

\* impl BitXor for &Id
BitXor(a, b) == [i \in 1..SIZE |-> XorBits(a[i], b[i], 8)]

\* the inner loop of dist_to: shifts left until the top bit is set
RECURSIVE ShiftsToTopBit(_)
ShiftsToTopBit(v) ==
    IF v \div 128 = 1 THEN 0 ELSE 1 + ShiftsToTopBit((v * 2) % 256)

RECURSIVE DistZeros(_, _)
DistZeros(node, i) ==
    IF i > SIZE THEN 0
    ELSE IF node[i] = 0 THEN 8 + DistZeros(node, i + 1)
    ELSE IF node[i] = 255 THEN 0
    ELSE ShiftsToTopBit(node[i])

dist_to(self, to) == SIZE * 8 - DistZeros(BitXor(self, to), 1)

\* at_dist panics on its assertion (bits >= 160) and on buf[idx] when idx = SIZE
at_dist_panics(bits) ==
    \/ ~ (bits < SIZE * 8)
    \/ (SIZE * 8 - bits) \div 8 >= SIZE

at_dist(self, bits) ==
    LET idx == (SIZE * 8 - bits) \div 8
        clear_bits == 8 - (bits % 8)
        byte == IF clear_bits < 8 THEN 255 \div (2 ^ clear_bits) ELSE 255
        buf == [i \in 1..SIZE |->
                   IF i - 1 < idx THEN 0 ELSE IF i - 1 = idx THEN byte ELSE 255]
    IN  BitXor(self, buf)

\* ------------------------------------------------------------------------
\* BTreeMap<Rc<Id>, Rc<Node>>: a function from ids to nodes, iterated in
\* ascending key order
\* ------------------------------------------------------------------------
EmptyMap == <<>>

MapInsert(m, k, v) == (k :> v) @@ m

MapRemove(m, k) == [x \in (DOMAIN m) \ {k} |-> m[x]]

FirstKey(keys) == CHOOSE k \in keys : \A o \in keys : IdLeq(k, o)

RECURSIVE SortedKeys(_)
SortedKeys(keys) ==
    IF keys = {} THEN <<>>
    ELSE LET k == FirstKey(keys) IN <<k>> \o SortedKeys(keys \ {k})

MapValues(m) ==
    LET ks == SortedKeys(DOMAIN m) IN [i \in 1..Len(ks) |-> m[ks[i]]]

\* ------------------------------------------------------------------------
\* Bucket (dht/src/routing.rs)
\* ------------------------------------------------------------------------
Bucket_new(lower, upper, ksize, t) ==
    [lower |-> lower, upper |-> upper, nodes |-> EmptyMap,
     extra_nodes |-> EmptyMap, ksize |-> ksize, last_updated |-> t]

\* the primary set takes a contact while it holds up to ksize of them
has_room_at_ksize(b) == Cardinality(DOMAIN b.nodes) <= b.ksize

\* the primary set takes a contact while it holds fewer than ksize of them
has_room(b) == Cardinality(DOMAIN b.nodes) < b.ksize

\* returns the bucket after the call and the call's result
add_node(b, node) ==
    IF node.id \in DOMAIN b.nodes \/ has_room(b)
    THEN [bucket |-> [b EXCEPT !.nodes = MapInsert(b.nodes, node.id, node)],
          added |-> TRUE]
    ELSE [bucket |-> [b EXCEPT !.extra_nodes =
                                  MapInsert(b.extra_nodes, node.id, node)],
          added |-> FALSE]

\* a remove_node that promotes no replacement
remove_node_without_promotion(b, node) ==
    LET extra == MapRemove(b.extra_nodes, node.id)
    IN  IF node.id \in DOMAIN b.nodes
        THEN [b EXCEPT !.extra_nodes = extra,
                       !.nodes = MapRemove(b.nodes, node.id)]
        ELSE [b EXCEPT !.extra_nodes = extra]

remove_node(b, node) ==
    LET extra == MapRemove(b.extra_nodes, node.id)
    IN  IF node.id \in DOMAIN b.nodes
        THEN LET nodes == MapRemove(b.nodes, node.id)
             IN  IF DOMAIN extra = {}
                 THEN [b EXCEPT !.extra_nodes = extra, !.nodes = nodes]
                 ELSE LET key == FirstKey(DOMAIN extra)
                      IN  [b EXCEPT !.extra_nodes = MapRemove(extra, key),
                                    !.nodes = MapInsert(nodes, key, extra[key])]
        ELSE [b EXCEPT !.extra_nodes = extra]

has_in_range(b, id) == IdLeq(b.lower, id) /\ IdLeq(id, b.upper)

is_new_node(b, id) == id \in DOMAIN b.nodes

RECURSIVE MaxDist(_, _, _)
MaxDist(origin, ids, acc) ==
    IF ids = {} THEN acc
    ELSE LET id == CHOOSE x \in ids : TRUE
             d == dist_to(origin, id)
         IN  MaxDist(origin, ids \ {id}, IF d > acc THEN d ELSE acc)

depth(b) == MaxDist(MaxId, DOMAIN b.nodes, 0)

\* Bucket::split panics when at_dist does
split_panics(b) == at_dist_panics(dist_to(b.lower, b.upper) \div 2)

RECURSIVE Distribute(_, _, _, _)
Distribute(nodes, middle, left, right) ==
    IF nodes = <<>> THEN <<left, right>>
    ELSE LET node == Head(nodes)
         IN  IF IdLeq(node.id, middle)
             THEN Distribute(Tail(nodes), middle,
                             add_node(left, node).bucket, right)
             ELSE Distribute(Tail(nodes), middle,
                             left, add_node(right, node).bucket)

split(b, t) ==
    LET distance == dist_to(b.lower, b.upper)
        middle == at_dist(b.lower, distance \div 2)
        left == Bucket_new(b.lower, middle, b.ksize, t)
        right == Bucket_new(at_dist(middle, 1), b.upper, b.ksize, t)
    IN  Distribute(MapValues(b.nodes) \o MapValues(b.extra_nodes),
                   middle, left, right)

\* ------------------------------------------------------------------------
\* RoutingTable (dht/src/routing.rs)
\* ------------------------------------------------------------------------
RoutingTable_new(ksize, t) == <<Bucket_new(MinId, MaxId, ksize, t)>>

\* buckets[index] = left; buckets.insert(index, right)
split_bucket(buckets, index, t) ==
    LET lr == split(buckets[index], t)
    IN  SubSeq(buckets, 1, index - 1) \o <<lr[2], lr[1]>>
          \o SubSeq(buckets, index + 1, Len(buckets))

\* the buckets the find() of bucket_index_of / bucket_of accepts
BucketsFor(buckets, id) ==
    {i \in 1..Len(buckets) : IdLess(id, buckets[i].upper)}

\* the unwrap() of bucket_index_of / bucket_of / bucket_of_mut fails
lookup_panics(buckets, id) == BucketsFor(buckets, id) = {}

bucket_index_of(buckets, id) ==
    CHOOSE i \in BucketsFor(buckets, id) :
        \A j \in BucketsFor(buckets, id) : i <= j

\* a full bucket is split whatever its range and its depth
must_split_always(b, own) == TRUE

\* a full bucket is split when it covers the local id or its depth is not
\* a multiple of 5
must_split(b, own) == has_in_range(b, own) \/ depth(b) % 5 # 0

\* add_contact with its recursion; room is the number of nested calls the
\* stack still has room for, splits counts the splits made so far
RECURSIVE add_contact(_, _, _, _, _, _)
add_contact(buckets, own, node, t, room, splits) ==
    IF lookup_panics(buckets, node.id)
    THEN [status |-> "panic", buckets |-> buckets, splits |-> splits]
    ELSE LET index == bucket_index_of(buckets, node.id)
             r == add_node(buckets[index], node)
             bs == [buckets EXCEPT ![index] = r.bucket]
         IN  IF r.added
             THEN [status |-> "ok", buckets |-> bs, splits |-> splits]
             ELSE IF must_split(r.bucket, own)
             THEN IF split_panics(r.bucket)
                  THEN [status |-> "panic", buckets |-> bs, splits |-> splits]
                  ELSE IF room = 0
                  THEN [status |-> "overflow", buckets |-> bs,
                        splits |-> splits]
                  ELSE add_contact(split_bucket(bs, index, t), own, node, t,
                                   room - 1, splits + 1)
             ELSE [status |-> "ok", buckets |-> bs, splits |-> splits]

remove_contact(buckets, node) ==
    LET index == bucket_index_of(buckets, node.id)
    IN  [buckets EXCEPT ![index] = remove_node(buckets[index], node)]

\* ------------------------------------------------------------------------
\* Inputs of the routing table
\* ------------------------------------------------------------------------
Node_new(id, addr, port) == [id |-> id, addr |-> <<addr, port>>]

\* the ids 0x01.., 0x02.., ..., 0x09.. of the split scenario
ScenarioIds == {IdFrom(<<b>>, 0) : b \in 1..9}

\* 00..05, below every bucket bound a split produces
LowId == IdFrom(<<0, 0, 0, 0, 0, 0, 0, 0, 0, 0, 0, 0, 0, 0, 0, 0, 0, 0, 0, 5>>, 0)

\* 0xC0..: an id in the upper half of the id space
HighId == IdFrom(<<192>>, 0)

ContactIds == {IdFrom(<<b>>, 0) : b \in 1..3} \cup {LowId, HighId, MaxId}

\* every contact has its own endpoint, except 0x01.. and 0x02.. which share one
ContactOf(id) == Node_new(id, IF id[1] = 2 THEN 1 ELSE id[1], 6881)

Contacts == {ContactOf(id) : id \in ContactIds}

ScenarioContacts == {ContactOf(id) : id \in ScenarioIds}

OwnIds == {MinId, IdFrom(<<170>>, 170)}

\* the arguments of find_neighbours: the node looked for, k and exclude
QueryNodes ==
    {Node_new(MinId, 9, 6881), Node_new(IdFrom(<<2>>, 0), 9, 6881),
     Node_new(HighId, 9, 6881), Node_new(MaxId, 9, 6881)}

NoExclude == [some |-> FALSE, v |-> Node_new(MinId, 0, 0)]

Excludes == {NoExclude, [some |-> TRUE, v |-> ContactOf(IdFrom(<<1>>, 0))]}

KChoices ==
    {[some |-> FALSE, v |-> 0]} \cup {[some |-> TRUE, v |-> k] : k \in 0..3}

\* no call is waiting for its caller to go on
NoCall ==
    [called |-> FALSE, op |-> "none", node |-> Node_new(MinId, 0, 0),
     k |-> [some |-> FALSE, v |-> 0], exclude |-> NoExclude, nodes |-> <<>>,
     splits |-> 0]

KSizes == {1, 2}

ScenarioK == 8

\* ------------------------------------------------------------------------
\* Storage engine (dht/src/storage.rs): torrents and their peers
\* ------------------------------------------------------------------------
\* std::net::SocketAddr; a V4 address has neither flow info nor scope id
SocketAddrV4(ip, port) ==
    [v6 |-> FALSE, ip |-> ip, port |-> port, flowinfo |-> 0, scope_id |-> 0]

SocketAddrV6(ip, port, flowinfo, scope_id) ==
    [v6 |-> TRUE, ip |-> ip, port |-> port, flowinfo |-> flowinfo,
     scope_id |-> scope_id]

PeerEntry_new(addr, added, seed) ==
    [added |-> added, addr |-> addr, seed |-> seed]

\* Ord for PeerEntry: by ip, then by port; -1 less, 0 equal, 1 greater
PeerEntry_cmp(a, b) ==
    IF a.addr.v6 # b.addr.v6 THEN (IF b.addr.v6 THEN -1 ELSE 1)
    ELSE IF a.addr.ip # b.addr.ip THEN (IF a.addr.ip < b.addr.ip THEN -1 ELSE 1)
    ELSE IF a.addr.port # b.addr.port
         THEN (IF a.addr.port < b.addr.port THEN -1 ELSE 1)
    ELSE 0

\* slice::binary_search on a sorted list: Ok(i) for any one matching i, or
\* Err(i) with i the insertion point (indices from 1)
binary_search(list, peer) ==
    LET matches == {i \in 1..Len(list) : PeerEntry_cmp(list[i], peer) = 0}
        below == {i \in 1..Len(list) : PeerEntry_cmp(list[i], peer) < 0}
    IN  IF matches # {}
        THEN {[found |-> TRUE, index |-> i] : i \in matches}
        ELSE {[found |-> FALSE, index |-> Cardinality(below) + 1]}

\* Vec::insert
VecInsert(list, i, x) ==
    SubSeq(list, 1, i - 1) \o <<x>> \o SubSeq(list, i, Len(list))

TorrentEntry_default == [name |-> <<>>, peers4 |-> <<>>, peers6 |-> <<>>]

DhtStorageCounter_default ==
    [torrents |-> 0, peers |-> 0, immutable_data |-> 0, mutable_data |-> 0]

\* name.chars().take(n)
Take(str, n) == SubSeq(str, 1, IF Len(str) < n THEN Len(str) ELSE n)

NameLimit == 100

\* the match on binary_search in announce_peer, for one search result r
store_peer(peersv, peer, r, max_peers) ==
    IF r.found /\ peersv[r.index].addr = peer.addr
    THEN [peers |-> [peersv EXCEPT ![r.index] = peer], added |-> 0]
    ELSE IF Len(peersv) >= max_peers
    THEN [peers |-> peersv, added |-> 0]
    ELSE [peers |-> VecInsert(peersv, r.index, peer), added |-> 1]

\* the torrent capacity test of announce_peer
at_capacity(map, settings) ==
    Cardinality(DOMAIN map) > settings.max_torrents

\* announce_peer: the set of storage states [map, counters] it can leave
announce_peer(map, counters, settings, info_hash, endpoint, name, seed, t) ==
    IF info_hash \notin DOMAIN map /\ at_capacity(map, settings)
    THEN {[map |-> map, counters |-> counters]}
    ELSE LET created == info_hash \notin DOMAIN map
             v0 == IF created THEN TorrentEntry_default ELSE map[info_hash]
             c0 == IF created THEN [counters EXCEPT !.torrents = @ + 1]
                   ELSE counters
             v1 == IF name # <<>> /\ v0.name = <<>>
                   THEN [v0 EXCEPT !.name = Take(name, NameLimit)] ELSE v0
             peersv == IF ~ endpoint.v6 THEN v1.peers4 ELSE v1.peers6
             peer == PeerEntry_new(endpoint, t, seed)
         IN  {LET sp == store_peer(peersv, peer, r, settings.max_peers)
                  v2 == IF ~ endpoint.v6 THEN [v1 EXCEPT !.peers4 = sp.peers]
                        ELSE [v1 EXCEPT !.peers6 = sp.peers]
              IN  [map |-> (info_hash :> v2) @@ map,
                   counters |-> [c0 EXCEPT !.peers = @ + sp.added]]
              : r \in binary_search(peersv, peer)}

\* detail::write_socket_addr: the octets of the ip, then the port in
\* big-endian order; the flow info and the scope id are not written
IpOctets(addr) ==
    [i \in 1..(IF addr.v6 THEN 16 ELSE 4) |->
        IF i = (IF addr.v6 THEN 16 ELSE 4) THEN addr.ip % 256 ELSE 0]

write_socket_addr(addr) ==
    IpOctets(addr) \o <<(addr.port \div 256) % 256, addr.port % 256>>

\* random::random_usize(max): gen_range(0, max), the upper bound excluded
random_usize(max) == 0..(max - 1)

\* the peers argument of get_peers: a bencode Value; when it is a dict, its
\* "values" entry is absent, a list or an integer
PeersValue(kind, values) == [kind |-> kind, values |-> values]

\* p is left out of the reply
skipped(no_seed, p) == no_seed /\ p.seed

\* candidates: peersv.iter().filter(..).count()
count_candidates(peersv, no_seed) ==
    Cardinality({i \in 1..Len(peersv) : ~ skipped(no_seed, peersv[i])})

\* the draw that leaves a candidate out, taking every draw above to_pick - 1
draw_rejects_early(r, to_pick) == r >= to_pick

\* the draw that leaves a candidate out
draw_rejects(r, to_pick) == r > to_pick

\* the while loop of the non-scrape path, the iterator standing before
\* peersv[i]: the set of [status, values, picked] it can end with, picked
\* being the positions in peersv of the peers written to values
RECURSIVE pick_peers(_, _, _, _, _, _, _)
pick_peers(peersv, i, to_pick, candidates, no_seed, pe, picked) ==
    IF to_pick = 0
    THEN {[status |-> "ok", values |-> pe, picked |-> picked]}
    ELSE IF i > Len(peersv)
    THEN {[status |-> "panic", values |-> pe, picked |-> picked]}
    ELSE IF skipped(no_seed, peersv[i])
    THEN pick_peers(peersv, i + 1, to_pick, candidates, no_seed, pe, picked)
    ELSE IF ~ (candidates >= to_pick)
    THEN {[status |-> "panic", values |-> pe, picked |-> picked]}
    ELSE UNION {
        IF draw_rejects(r, to_pick)
        THEN pick_peers(peersv, i + 1, to_pick, candidates - 1, no_seed, pe,
                        picked)
        ELSE pick_peers(peersv, i + 1, to_pick - 1, candidates - 1, no_seed,
                        Append(pe, write_socket_addr(peersv[i].addr)),
                        Append(picked, i))
        : r \in random_usize((candidates - 1) + 1)}

\* to_pick before the loop
reply_limit(peersv, requester, settings, no_seed) ==
    LET to_pick == IF peersv # <<>> /\ requester.v6
                   THEN settings.max_peers_reply \div 4
                   ELSE settings.max_peers_reply
        candidates == count_candidates(peersv, no_seed)
    IN  IF to_pick < candidates THEN to_pick ELSE candidates

\* the test get_peers makes before it looks the requester up, inverted
below_max_peers_inverted(peersv, settings) ==
    Len(peersv) >= settings.max_peers

\* the test get_peers makes before it looks the requester up
below_max_peers(peersv, settings) == Len(peersv) < settings.max_peers

\* the return value of get_peers for a torrent that has an entry, for one
\* result r of the binary search
requester_answer(peersv, requester, r, settings) ==
    IF below_max_peers(peersv, settings) THEN FALSE
    ELSE IF r.found THEN peersv[r.index].addr # requester
    ELSE TRUE

\* what get_peers hands back: status "ok" with the returned bool, "err" for
\* an io::Error, "panic"; n is the name written under "n", values the
\* strings appended to "values", bfpe and bfsd the addresses set in the two
\* bloom filters of a scrape
GetPeersReply(status, ret) ==
    [status |-> status, ret |-> ret, n |-> <<>>, values |-> <<>>,
     picked |-> <<>>, scraped |-> FALSE, bfpe |-> {}, bfsd |-> {}]

\* get_peers: the set of replies it can give
get_peers(map, settings, info_hash, no_seed, scrape, requester, peers, t) ==
    IF info_hash \notin DOMAIN map
    THEN {GetPeersReply("ok", Cardinality(DOMAIN map) >= settings.max_torrents)}
    ELSE IF peers.kind # "dict" THEN {GetPeersReply("err", FALSE)}
    ELSE
    LET v == map[info_hash]
        peersv == IF ~ requester.v6 THEN v.peers4 ELSE v.peers6
        requester_entry == PeerEntry_new(requester, t, FALSE)
        answers == {requester_answer(peersv, requester, r, settings) :
                        r \in binary_search(peersv, requester_entry)}
        ips(seed) == {peersv[i].addr.ip :
                         i \in {j \in 1..Len(peersv) : peersv[j].seed = seed}}
    IN  IF scrape
        THEN {[GetPeersReply("ok", ret) EXCEPT
                   !.n = v.name, !.scraped = TRUE, !.bfpe = ips(FALSE),
                   !.bfsd = ips(TRUE)] : ret \in answers}
        ELSE IF peers.values = "absent"
        THEN {[GetPeersReply("panic", FALSE) EXCEPT !.n = v.name]}
        ELSE IF peers.values # "list"
        THEN {[GetPeersReply("err", FALSE) EXCEPT !.n = v.name]}
        ELSE UNION {
            IF out.status # "ok"
            THEN {[GetPeersReply("panic", FALSE) EXCEPT
                       !.n = v.name, !.values = out.values,
                       !.picked = out.picked]}
            ELSE {[GetPeersReply("ok", ret) EXCEPT
                       !.n = v.name, !.values = out.values,
                       !.picked = out.picked] : ret \in answers}
            : out \in pick_peers(peersv, 1,
                                 reply_limit(peersv, requester, settings,
                                             no_seed),
                                 count_candidates(peersv, no_seed), no_seed,
                                 <<>>, <<>>)}

\* ------------------------------------------------------------------------
\* Storage engine (dht/src/storage.rs): immutable and mutable items
\* ------------------------------------------------------------------------
\* Sha1Hash::leading_zeros (common/src/sha1.rs)
RECURSIVE leading_zeros_from(_, _)
leading_zeros_from(data, i) ==
    IF i > SIZE THEN 0
    ELSE IF data[i] = 0 THEN 8 + leading_zeros_from(data, i + 1)
    ELSE ShiftsToTopBit(data[i])

leading_zeros(hash) == leading_zeros_from(hash, 1)

\* impl_binary_op!(BitXor, ...) (common/src/sha1.rs)
sha1_bitxor(a, b) == [i \in 1..SIZE |-> XorBits(a[i], b[i], 8)]

\* distance_exp(a, b) = max(0, 159 - leading_zeros(distance(a, b)))
distance_exp(a, b) ==
    LET lz == leading_zeros(sha1_bitxor(a, b))
    IN  IF SIZE * 8 - 1 - lz < 0 THEN 0 ELSE SIZE * 8 - 1 - lz

RECURSIVE min_distance_exp(_, _)
min_distance_exp(k, node_ids) ==
    IF Len(node_ids) = 1 THEN distance_exp(k, node_ids[1])
    ELSE LET d == distance_exp(k, Head(node_ids))
             m == min_distance_exp(k, Tail(node_ids))
         IN  IF d < m THEN d ELSE m

\* The first four bytes of the SHA-1 digest of the packed octets of the
\* modelled addresses (Sha1Hash::from_address); the digest is computed by
\* the sha1 crate.
AddrDigest ==
    (<<10, 0, 0, 1>> :> <<29, 192, 180, 34>>) @@
    (<<10, 0, 0, 2>> :> <<170, 42, 216, 225>>) @@
    (<<10, 0, 0, 3>> :> <<113, 71, 115, 27>>) @@
    (<<10, 0, 0, 4>> :> <<204, 244, 42, 0>>) @@
    (<<10, 0, 0, 5>> :> <<197, 169, 208, 228>>) @@
    (<<10, 0, 0, 6>> :> <<238, 66, 235, 21>>) @@
    (<<10, 0, 0, 7>> :> <<71, 219, 208, 71>>) @@
    (<<10, 0, 0, 8>> :> <<84, 172, 75, 235>>) @@
    (<<10, 0, 0, 9>> :> <<143, 126, 215, 34>>) @@
    (<<10, 0, 0, 10>> :> <<188, 116, 49, 197>>)

\* the same for three addresses of which the third sets no bit that the
\* other two have not set in a BloomFilter128
CollidingDigest ==
    (<<10, 0, 0, 30>> :> <<139, 226, 147, 69>>) @@
    (<<10, 0, 0, 46>> :> <<135, 193, 151, 10>>) @@
    (<<10, 0, 0, 65>> :> <<135, 37, 147, 233>>)

from_address(addr) == (AddrDigest @@ CollidingDigest)[addr]

\* BloomFilter128 (common/src/bloom_filter.rs): the set of its set bits
BloomSize == 128

bloom_idx1(key, len) == (key[1] + key[2] * 256) % (len * 8)

bloom_idx2(key, len) == (key[3] + key[4] * 256) % (len * 8)

has_bits(key, bits, len) ==
    bloom_idx1(key, len) \in bits /\ bloom_idx2(key, len) \in bits

set_bits(key, bits, len) ==
    bits \cup {bloom_idx1(key, len), bloom_idx2(key, len)}

\* DhtImmutableItem::new, DhtMutableItem::new: a mutable item is the
\* immutable one with sig, seq, key and salt at their defaults
EmptyBytes == <<>>

Signature_default == [i \in 1..64 |-> 0]

PublicKey_default == [i \in 1..32 |-> 0]

DhtImmutableItem_new(value, t) ==
    [value |-> value, ips |-> {}, last_seen |-> t, num_announcers |-> 0,
     size |-> 0]

DhtMutableItem_new(value, t) ==
    [value |-> value, ips |-> {}, last_seen |-> t, num_announcers |-> 0,
     size |-> 0, sig |-> Signature_default, seq |-> 0,
     key |-> PublicKey_default, salt |-> EmptyBytes]

\* every put counts as a new announcer
not_found_always(iphash, ips) == TRUE

\* the address is not in the announcer filter of the item yet
not_found(iphash, ips) == ~ has_bits(iphash, ips, BloomSize)

touch_item(item, addr, t) ==
    LET iphash == from_address(addr)
        seen == [item EXCEPT !.last_seen = t]
    IN  IF not_found(iphash, item.ips)
        THEN [seen EXCEPT !.ips = set_bits(iphash, item.ips, BloomSize),
                          !.num_announcers = @ + 1]
        ELSE seen

set_value(item, buf) == [item EXCEPT !.value = buf]

\* a - b on usize.  A debug build panics when a < b; a release build wraps:
\* the result is a - b + 2^64, written here [wrapped |-> TRUE, diff |-> a - b]
AnnouncersPerPoint == 5

usize_sub(a, b) == [wrapped |-> a < b, diff |-> a - b]

usize_less(x, y) ==
    IF x.wrapped # y.wrapped THEN y.wrapped ELSE x.diff < y.diff

\* n1 / n2 of pick_least_imp
importance(table, node_ids, k) ==
    usize_sub(table[k].num_announcers \div AnnouncersPerPoint,
              min_distance_exp(k, node_ids))

\* the subtraction of pick_least_imp overflows in a debug build; min_by
\* compares, and so scores, every entry once the table holds two
pick_panics(table, node_ids, bld) ==
    /\ bld = "debug"
    /\ Cardinality(DOMAIN table) >= 2
    /\ \E k \in DOMAIN table : importance(table, node_ids, k).wrapped

\* pick_least_imp: the keys min_by can return, the HashMap being iterated
\* in an arbitrary order; {} stands for None
pick_least_imp(table, node_ids) ==
    LET score == [k \in DOMAIN table |-> importance(table, node_ids, k)]
    IN  {k \in DOMAIN table :
            \A j \in DOMAIN table : ~ usize_less(score[j], score[k])}

\* the capacity test taken one entry too late
table_full_off_by_one(table, settings) ==
    Cardinality(DOMAIN table) > settings.max_dht_items

\* the table is full for a new target
table_full(table, settings) ==
    Cardinality(DOMAIN table) >= settings.max_dht_items

\* a put for a stored target that also replaces the stored bytes
touch_stored_with_value(table, target, item, addr, t) ==
    [table EXCEPT ![target] = touch_item(set_value(@, item), addr, t)]

\* put_immutable_item for a stored target: the item is touched
touch_stored(table, target, item, addr, t) ==
    [table EXCEPT ![target] = touch_item(@, addr, t)]

\* put_immutable_item: the set of outcomes [table, counters, status]
put_immutable_item(table, counters, settings, node_ids, bld, target, item, addr, t) ==
    IF target \in DOMAIN table
    THEN {[table |-> touch_stored(table, target, item, addr, t),
           counters |-> counters, status |-> "ok"]}
    ELSE IF table_full(table, settings)
    THEN IF pick_panics(table, node_ids, bld)
            \/ pick_least_imp(table, node_ids) = {}
         THEN {[table |-> table, counters |-> counters, status |-> "panic"]}
         ELSE {LET kept == MapRemove(table, k)
                   to_add == DhtImmutableItem_new(item, t)
               IN  [table |-> (target :> touch_item(to_add, addr, t)) @@ kept,
                    counters |-> [counters EXCEPT
                                     !.immutable_data = @ - 1 + 1],
                    status |-> "ok"]
               : k \in pick_least_imp(table, node_ids)}
    ELSE {[table |-> (target :> touch_item(DhtImmutableItem_new(item, t),
                                          addr, t)) @@ table,
           counters |-> [counters EXCEPT !.immutable_data = @ + 1],
           status |-> "ok"]}

\* the freshness test letting an equal seq through
is_newer_or_equal(stored_seq, seq) == stored_seq <= seq

\* the freshness test of put_mutable_item
is_newer(stored_seq, seq) == stored_seq < seq

\* the item put_mutable_item inserts for an absent target
new_mutable_item(buf, signature, seq, pk, salt, addr, t) ==
    touch_item([DhtMutableItem_new(buf, t) EXCEPT
                   !.seq = seq, !.salt = salt, !.sig = signature, !.key = pk],
               addr, t)

\* put_mutable_item: the set of outcomes [table, counters, status]
put_mutable_item(table, counters, settings, node_ids, bld, target, buf, signature, seq, pk, salt, addr, t) ==
    IF target \in DOMAIN table
    THEN LET item == table[target]
             fresh == IF is_newer(item.seq, seq)
                      THEN [set_value(item, buf) EXCEPT
                               !.seq = seq, !.sig = signature]
                      ELSE item
         IN  {[table |-> [table EXCEPT ![target] = touch_item(fresh, addr, t)],
               counters |-> counters, status |-> "ok"]}
    ELSE IF table_full(table, settings)
    THEN IF pick_panics(table, node_ids, bld)
            \/ pick_least_imp(table, node_ids) = {}
         THEN {[table |-> table, counters |-> counters, status |-> "panic"]}
         ELSE {[table |-> (target :> new_mutable_item(buf, signature, seq, pk,
                                                     salt, addr, t))
                            @@ MapRemove(table, k),
                counters |-> [counters EXCEPT !.mutable_data = @ + 1 + 1],
                status |-> "ok"]
               : k \in pick_least_imp(table, node_ids)}
    ELSE {[table |-> (target :> new_mutable_item(buf, signature, seq, pk,
                                                salt, addr, t)) @@ table,
           counters |-> [counters EXCEPT !.mutable_data = @ + 1],
           status |-> "ok"]}

\* ------------------------------------------------------------------------
\* Bencode (bencode/src/value_ref.rs, bencode/src/reader.rs)
\* ------------------------------------------------------------------------
\* ValueRef: Int(i64), String(&[u8]), List(Vec<ValueRef>) and
\* Dict(BTreeMap<&str, ValueRef>), the map written as its keys in ascending
\* order and the values in the order of their keys.  Bytes are 0..255.
ValueRef_Int(n) ==
    [kind |-> "Int", n |-> n, bytes |-> <<>>, keys |-> <<>>, items |-> <<>>]

ValueRef_String(bytes) ==
    [kind |-> "String", n |-> 0, bytes |-> bytes, keys |-> <<>>,
     items |-> <<>>]

ValueRef_List(items) ==
    [kind |-> "List", n |-> 0, bytes |-> <<>>, keys |-> <<>>,
     items |-> items]

ValueRef_Dict(keys, items) ==
    [kind |-> "Dict", n |-> 0, bytes |-> <<>>, keys |-> keys,
     items |-> items]

\* Option<usize>
Some(n) == [some |-> TRUE, v |-> n]

None == [some |-> FALSE, v |-> 0]

\* Result<ValueRef>: Ok(value), or Err(error) with the byte the error carries
Ok(value) == [err |-> "none", byte |-> 0, value |-> value]

Err(error, byte) == [err |-> error, byte |-> byte, value |-> ValueRef_Int(0)]

\* the order of str: lexicographic on the bytes
RECURSIVE StrLess(_, _)
StrLess(a, b) ==
    IF b = <<>> THEN FALSE
    ELSE IF a = <<>> THEN TRUE
    ELSE IF Head(a) # Head(b) THEN Head(a) < Head(b)
    ELSE StrLess(Tail(a), Tail(b))

\* std::str::from_utf8(..).is_ok(), for byte strings whose bytes above 127
\* are 255, a byte that no UTF-8 sequence contains
from_utf8_ok(bytes) == \A i \in 1..Len(bytes) : bytes[i] < 128

\* the decimal digits Display writes for n >= 0, and for an i64
RECURSIVE Digits(_)
Digits(n) ==
    IF n < 10 THEN <<48 + n>> ELSE Digits(n \div 10) \o <<48 + (n % 10)>>

Display(n) == IF n < 0 THEN <<45>> \o Digits(0 - n) ELSE Digits(n)

\* str::parse::<i64>: an optional sign, then one decimal digit or more
IsDigit(b) == b >= 48 /\ b <= 57

RECURSIVE DigitsValue(_, _)
DigitsValue(digits, acc) ==
    IF digits = <<>> THEN acc
    ELSE DigitsValue(Tail(digits), acc * 10 + (Head(digits) - 48))

\* i64::MAX and the magnitude of i64::MIN, in decimal digits
I64MaxDigits ==
    <<57, 50, 50, 51, 51, 55, 50, 48, 51, 54, 56, 53, 52, 55, 55, 53, 56, 48,
      55>>

I64MinDigits ==
    <<57, 50, 50, 51, 51, 55, 50, 48, 51, 54, 56, 53, 52, 55, 55, 53, 56, 48,
      56>>

RECURSIVE StripZeros(_)
StripZeros(digits) ==
    IF digits # <<>> /\ Head(digits) = 48 THEN StripZeros(Tail(digits))
    ELSE digits

\* the checked multiplication or addition of the parse overflows: the
\* magnitude is above the limit of its sign
overflows(negative, digits) ==
    LET d == StripZeros(digits)
        limit == IF negative THEN I64MinDigits ELSE I64MaxDigits
    IN  Len(d) > Len(limit) \/ (Len(d) = Len(limit) /\ StrLess(limit, d))

parse_i64(s) ==
    LET signed == s # <<>> /\ Head(s) \in {43, 45}
        digits == IF signed THEN Tail(s) ELSE s
    IN  IF digits = <<>> \/ \E i \in 1..Len(digits) : ~ IsDigit(digits[i])
        THEN [ok |-> FALSE, n |-> 0]
        ELSE IF overflows(signed /\ Head(s) = 45, digits)
        THEN [ok |-> FALSE, n |-> 0]
        ELSE [ok |-> TRUE,
              n |-> IF signed /\ Head(s) = 45
                    THEN 0 - DigitsValue(digits, 0)
                    ELSE DigitsValue(digits, 0)]

\* ValueRef::encode: the token stack, its top at the end; tokens are
\* B(value), S(key) and E
Token_B(v) == [tok |-> "B", v |-> v, s |-> <<>>]

Token_S(s) == [tok |-> "S", v |-> ValueRef_Int(0), s |-> s]

Token_E == [tok |-> "E", v |-> ValueRef_Int(0), s |-> <<>>]

Reversed(seq) == [i \in 1..Len(seq) |-> seq[Len(seq) + 1 - i]]

\* for (k, v) in m.iter().rev() { push(B(v)); push(S(k)) }
RECURSIVE DictTokens(_, _, _)
DictTokens(keys, items, i) ==
    IF i = 0 THEN <<>>
    ELSE <<Token_B(items[i]), Token_S(keys[i])>>
             \o DictTokens(keys, items, i - 1)

RECURSIVE encode_loop(_, _)
encode_loop(stack, w) ==
    IF stack = <<>> THEN w
    ELSE LET top == stack[Len(stack)]
             rest == SubSeq(stack, 1, Len(stack) - 1)
         IN  IF top.tok = "E" THEN encode_loop(rest, w \o <<101>>)
             ELSE IF top.tok = "S"
             THEN encode_loop(rest, w \o Display(Len(top.s)) \o <<58>>
                                      \o top.s)
             ELSE IF top.v.kind = "Int"
             THEN encode_loop(rest, w \o <<105>> \o Display(top.v.n)
                                      \o <<101>>)
             ELSE IF top.v.kind = "String"
             THEN encode_loop(rest, w \o Display(Len(top.v.bytes)) \o <<58>>
                                      \o top.v.bytes)
             ELSE IF top.v.kind = "List"
             THEN encode_loop(
                      rest \o <<Token_E>>
                           \o Reversed([i \in 1..Len(top.v.items) |->
                                           Token_B(top.v.items[i])]),
                      w \o <<108>>)
             ELSE encode_loop(
                      rest \o <<Token_E>>
                           \o DictTokens(top.v.keys, top.v.items,
                                         Len(top.v.keys)),
                      w \o <<100>>)

encode(v) == encode_loop(<<Token_B(v)>>, <<>>)

\* lib.rs, Value::encode: for (k, v) in m { push(B(v)); push(S(k)) }
RECURSIVE lib_DictTokens(_, _, _)
lib_DictTokens(keys, items, i) ==
    IF i > Len(keys) THEN <<>>
    ELSE <<Token_B(items[i]), Token_S(keys[i])>>
             \o lib_DictTokens(keys, items, i + 1)

RECURSIVE lib_encode_loop(_, _)
lib_encode_loop(stack, w) ==
    IF stack = <<>> THEN w
    ELSE LET top == stack[Len(stack)]
             rest == SubSeq(stack, 1, Len(stack) - 1)
         IN  IF top.tok = "E" THEN lib_encode_loop(rest, w \o <<101>>)
             ELSE IF top.tok = "S"
             THEN lib_encode_loop(rest, w \o Display(Len(top.s)) \o <<58>>
                                          \o top.s)
             ELSE IF top.v.kind = "Int"
             THEN lib_encode_loop(rest, w \o <<105>> \o Display(top.v.n)
                                          \o <<101>>)
             ELSE IF top.v.kind = "String"
             THEN lib_encode_loop(rest, w \o Display(Len(top.v.bytes))
                                          \o <<58>> \o top.v.bytes)
             ELSE IF top.v.kind = "List"
             THEN lib_encode_loop(
                      rest \o <<Token_E>>
                           \o Reversed([i \in 1..Len(top.v.items) |->
                                           Token_B(top.v.items[i])]),
                      w \o <<108>>)
             ELSE lib_encode_loop(
                      rest \o <<Token_E>>
                           \o lib_DictTokens(top.v.keys, top.v.items, 1),
                      w \o <<100>>)

lib_encode(v) == lib_encode_loop(<<Token_B(v)>>, <<>>)

\* Reader: the buffer and curr_idx, an index counted from 0
next_byte(buf, curr_idx) ==
    IF curr_idx < Len(buf)
    THEN [some |-> TRUE, byte |-> buf[curr_idx + 1], curr_idx |-> curr_idx + 1]
    ELSE [some |-> FALSE, byte |-> 0, curr_idx |-> curr_idx]

move_back(curr_idx) == curr_idx - 1

read_until(buf, curr_idx, stop_byte) ==
    IF curr_idx >= Len(buf)
    THEN [err |-> "EOF", curr_idx |-> Len(buf), slice |-> <<>>]
    ELSE LET found == {pos \in 0..(Len(buf) - curr_idx - 1) :
                          buf[curr_idx + 1 + pos] = stop_byte}
         IN  IF found = {}
             THEN [err |-> "ExpectedChar", curr_idx |-> curr_idx,
                   slice |-> <<>>]
             ELSE LET pos == CHOOSE q \in found : \A r \in found : q <= r
                  IN  [err |-> "none", curr_idx |-> curr_idx + pos + 1,
                       slice |-> SubSeq(buf, curr_idx + 1, curr_idx + pos)]

read_int_until(buf, curr_idx, stop_byte) ==
    LET r == read_until(buf, curr_idx, stop_byte)
        parsed == parse_i64(r.slice)
    IN  IF r.err # "none" THEN [err |-> r.err, curr_idx |-> r.curr_idx, n |-> 0]
        ELSE IF ~ from_utf8_ok(r.slice) \/ ~ parsed.ok
        THEN [err |-> "ParseInt", curr_idx |-> r.curr_idx, n |-> 0]
        ELSE [err |-> "none", curr_idx |-> r.curr_idx, n |-> parsed.n]

read_exact(buf, curr_idx, len) ==
    LET end_index == curr_idx + len
    IN  IF curr_idx >= Len(buf) \/ end_index > Len(buf)
        THEN [err |-> "EOF", curr_idx |-> Len(buf), slice |-> <<>>]
        ELSE [err |-> "none", curr_idx |-> end_index,
              slice |-> SubSeq(buf, curr_idx + 1, end_index)]

\* the entries of ValueRef::decode_with_limits's c_stack
Kind_List(len) == [kind |-> "List", len |-> len]

Kind_Dict(len) == [kind |-> "Dict", len |-> len]

\* BTreeMap::insert on the map written as ascending keys and their values
RECURSIVE btree_insert(_, _, _, _)
btree_insert(keys, items, key, val) ==
    IF keys = <<>> THEN [keys |-> <<key>>, items |-> <<val>>]
    ELSE IF Head(keys) = key
    THEN [keys |-> keys, items |-> <<val>> \o Tail(items)]
    ELSE IF StrLess(key, Head(keys))
    THEN [keys |-> <<key>> \o keys, items |-> <<val>> \o items]
    ELSE LET rest == btree_insert(Tail(keys), Tail(items), key, val)
         IN  [keys |-> <<Head(keys)>> \o rest.keys,
              items |-> <<Head(items)>> \o rest.items]

\* ValueRef::as_str(..).is_some()
as_str_ok(v) == v.kind = "String" /\ from_utf8_ok(v.bytes)

\* the loop closing a dict: pops a value and its key while v_stack is longer
\* than len
RECURSIVE close_dict(_, _, _, _)
close_dict(v_stack, len, keys, items) ==
    IF Len(v_stack) <= len
    THEN [ok |-> TRUE, keys |-> keys, items |-> items]
    ELSE LET val == v_stack[Len(v_stack)]
             key == v_stack[Len(v_stack) - 1]
             map == btree_insert(keys, items, key.bytes, val)
         IN  IF as_str_ok(key)
             THEN close_dict(SubSeq(v_stack, 1, Len(v_stack) - 2), len,
                             map.keys, map.items)
             ELSE [ok |-> FALSE, keys |-> keys, items |-> items]

\* the item test refusing the item that reaches the limit
item_limit_reached_early(items, item_limit) ==
    item_limit.some /\ items >= item_limit.v

\* Some(limit) if items > limit, items counting the items before this one
item_limit_reached(items, item_limit) ==
    item_limit.some /\ items > item_limit.v

\* the loop of ValueRef::decode_with_limits, from the reader's curr_idx on
RECURSIVE decode_loop(_, _, _, _, _, _, _)
decode_loop(buf, curr_idx, c_stack, v_stack, items, depth_limit, item_limit) ==
    LET b == next_byte(buf, curr_idx)
        top == c_stack[Len(c_stack)]
        c_rest == SubSeq(c_stack, 1, Len(c_stack) - 1)
        len_r == read_int_until(buf, move_back(b.curr_idx), 58)
        str_r == read_exact(buf, len_r.curr_idx, len_r.n)
        int_r == read_int_until(buf, b.curr_idx, 101)
        dict == close_dict(v_stack, top.len, <<>>, <<>>)
    IN  IF ~ b.some
        THEN IF c_stack = <<>> /\ Len(v_stack) = 1
             THEN Ok(v_stack[1]) ELSE Err("EOF", 0)
        ELSE IF b.byte = 101
        THEN IF c_stack = <<>> THEN Err("InvalidChar", 101)
             ELSE IF top.kind = "List"
             THEN decode_loop(buf, b.curr_idx, c_rest,
                      SubSeq(v_stack, 1, top.len)
                          \o <<ValueRef_List(SubSeq(v_stack, top.len + 1,
                                                    Len(v_stack)))>>,
                      items, depth_limit, item_limit)
             ELSE IF (Len(v_stack) - top.len) % 2 # 0 \/ ~ dict.ok
             THEN Err("ParseDict", 0)
             ELSE decode_loop(buf, b.curr_idx, c_rest,
                      SubSeq(v_stack, 1, top.len)
                          \o <<ValueRef_Dict(dict.keys, dict.items)>>,
                      items, depth_limit, item_limit)
        ELSE IF c_stack = <<>> /\ v_stack # <<>> THEN Err("EOF", 0)
        ELSE IF depth_limit.some /\ Len(c_stack) > depth_limit.v
        THEN Err("DepthLimit", 0)
        ELSE IF item_limit_reached(items, item_limit)
        THEN Err("ItemLimit", 0)
        ELSE IF IsDigit(b.byte)
        THEN IF len_r.err # "none"
             THEN Err(len_r.err, IF len_r.err = "ExpectedChar" THEN 58 ELSE 0)
             ELSE IF str_r.err # "none" THEN Err(str_r.err, 0)
             ELSE decode_loop(buf, str_r.curr_idx, c_stack,
                      v_stack \o <<ValueRef_String(str_r.slice)>>,
                      items + 1, depth_limit, item_limit)
        ELSE IF b.byte = 105
        THEN IF int_r.err # "none"
             THEN Err(int_r.err, IF int_r.err = "ExpectedChar" THEN 101 ELSE 0)
             ELSE decode_loop(buf, int_r.curr_idx, c_stack,
                      v_stack \o <<ValueRef_Int(int_r.n)>>,
                      items + 1, depth_limit, item_limit)
        ELSE IF b.byte = 108
        THEN decode_loop(buf, b.curr_idx,
                 c_stack \o <<Kind_List(Len(v_stack))>>, v_stack,
                 items + 1, depth_limit, item_limit)
        ELSE IF b.byte = 100
        THEN decode_loop(buf, b.curr_idx,
                 c_stack \o <<Kind_Dict(Len(v_stack))>>, v_stack,
                 items + 1, depth_limit, item_limit)
        ELSE Err("InvalidChar", b.byte)

decode_with_limits(bytes, depth_limit, item_limit) ==
    decode_loop(bytes, 0, <<>>, <<>>, 0, depth_limit, item_limit)

decode(bytes) == decode_with_limits(bytes, None, None)

\* Value::decode (bencode/src/value.rs): the owning decoder takes the steps
\* of the borrowing one, its strings and keys owning their bytes
Value_decode(bytes) == decode(bytes)

\* ------------------------------------------------------------------------
\* Sha1Hash shifts (common/src/sha1.rs)
\* ------------------------------------------------------------------------
\* nothing is saved, read or shifted
NoIo == [op |-> "none"]

\* what a shift leaves: the data with status "ok", or status "ub" when the
\* call had undefined behaviour and the build crashed or damaged memory
Shifted(status, data) == [status |-> status, data |-> data]

\* std::ptr::copy(src, dst, count) with count = (SIZE - shift_bytes) * 8
\* bytes: the array holds SIZE bytes, so the copy reads or writes beyond it
\* unless both src + count and dst + count stay within the array
copy_in_bounds(src_at, dst_at, count) ==
    src_at + count <= SIZE /\ dst_at + count <= SIZE

\* the left shift by whole bytes, the bytes beyond the array ignored
shl_bytes(data, shift_bytes) ==
    [i \in 1..SIZE |-> IF i + shift_bytes <= SIZE THEN data[i + shift_bytes]
                       ELSE 0]

shr_bytes(data, shift_bytes) ==
    [i \in 1..SIZE |-> IF i > shift_bytes THEN data[i - shift_bytes] ELSE 0]

\* for i in (0..SIZE).rev(): the carry is the top shift bits of the byte
RECURSIVE shl_bits(_, _, _, _)
shl_bits(data, shift, i, carry) ==
    IF i = 0 THEN data
    ELSE shl_bits([data EXCEPT ![i] = ((@ * 2 ^ shift) % 256) + carry],
                  shift, i - 1, data[i] \div 2 ^ (8 - shift))

\* for i in 0..SIZE: the carry is the low shift bits of the byte, moved up
RECURSIVE shr_bits(_, _, _, _)
shr_bits(data, shift, i, carry) ==
    IF i > SIZE THEN data
    ELSE shr_bits([data EXCEPT ![i] = (@ \div 2 ^ shift) + carry],
                  shift, i + 1, (data[i] % 2 ^ shift) * 2 ^ (8 - shift))

\* ShlAssign::shl_assign: the set of outcomes
shl_assign(data, shift) ==
    LET shift_bytes == shift \div 8
        moved == IF shift_bytes > 0 THEN shl_bytes(data, shift_bytes) ELSE data
        rest == shift - shift_bytes * 8
        done == IF rest > 0 THEN shl_bits(moved, rest, SIZE, 0) ELSE moved
        count == (SIZE - shift_bytes) * 8
    IN  IF shift_bytes >= SIZE THEN {Shifted("ok", MinId)}
        ELSE IF shift_bytes > 0 /\ ~ copy_in_bounds(shift_bytes, 0, count)
        THEN {Shifted("ok", done), Shifted("ub", done)}
        ELSE {Shifted("ok", done)}

\* ShrAssign::shr_assign: the set of outcomes
shr_assign(data, shift) ==
    LET shift_bytes == shift \div 8
        moved == IF shift_bytes > 0 THEN shr_bytes(data, shift_bytes) ELSE data
        rest == shift - shift_bytes * 8
        done == IF rest > 0 THEN shr_bits(moved, rest, 1, 0) ELSE moved
        count == (SIZE - shift_bytes) * 8
    IN  IF shift_bytes >= SIZE THEN {Shifted("ok", MinId)}
        ELSE IF shift_bytes > 0 /\ ~ copy_in_bounds(0, shift_bytes, count)
        THEN {Shifted("ok", done), Shifted("ub", done)}
        ELSE {Shifted("ok", done)}

\* ------------------------------------------------------------------------
\* State snapshot (dht/src/state.rs, dht/src/detail.rs)
\* ------------------------------------------------------------------------
\* the keys "node-id", "nodes" and "nodes6"
KeyNodeId == <<110, 111, 100, 101, 45, 105, 100>>

KeyNodes == <<110, 111, 100, 101, 115>>

KeyNodes6 == <<110, 111, 100, 101, 115, 54>>

IpAddr(v6, ip) == [v6 |-> v6, ip |-> ip]

\* Ipv4Addr::LOCALHOST, 127.0.0.1
Ipv4Addr_LOCALHOST == IpAddr(FALSE, 127 * 16777216 + 1)

DhtState_new(nids, nodes, nodes6) ==
    [nids |-> nids, nodes |-> nodes, nodes6 |-> nodes6]

DhtState_default == DhtState_new(<<>>, <<>>, <<>>)

\* the address whose octets are read, the first octet leading
RECURSIVE OctetsValue(_, _)
OctetsValue(octets, acc) ==
    IF octets = <<>> THEN acc
    ELSE OctetsValue(Tail(octets), acc * 256 + Head(octets))

read_v4_address(c) == IpAddr(FALSE, OctetsValue(SubSeq(c, 1, 4), 0))

read_v6_address(c) == IpAddr(TRUE, OctetsValue(SubSeq(c, 1, 16), 0))

\* u16::from_be_bytes
u16_from_be_bytes(port) == port[1] * 256 + port[2]

read_v4_socket_address(c) ==
    SocketAddrV4(OctetsValue(SubSeq(c, 1, 4), 0),
                 u16_from_be_bytes(SubSeq(c, 5, 6)))

\* SocketAddr::new: the flow info and the scope id are 0
read_v6_socket_address(c) ==
    SocketAddrV6(OctetsValue(SubSeq(c, 1, 16), 0),
                 u16_from_be_bytes(SubSeq(c, 17, 18)), 0, 0)

\* save_nodes: one byte string per endpoint
save_nodes(nodes) ==
    ValueRef_List([i \in 1..Len(nodes) |->
                      ValueRef_String(write_socket_addr(nodes[i]))])

\* the list under "node-id": the id, then the octets of the address
save_nids(nids) ==
    ValueRef_List([i \in 1..Len(nids) |->
                      ValueRef_String(nids[i].id \o IpOctets(nids[i].addr))])

\* dict.insert(key, val) when the vector is not empty
insert_unless_empty(dict, vector, key, val) ==
    IF vector = <<>> THEN dict
    ELSE btree_insert(dict.keys, dict.items, key, val)

\* DhtState::save
DhtState_save(state) ==
    LET d0 == [keys |-> <<>>, items |-> <<>>]
        d1 == insert_unless_empty(d0, state.nids, KeyNodeId,
                                  save_nids(state.nids))
        d2 == insert_unless_empty(d1, state.nodes, KeyNodes,
                                  save_nodes(state.nodes))
        d3 == insert_unless_empty(d2, state.nodes6, KeyNodes6,
                                  save_nodes(state.nodes6))
    IN  ValueRef_Dict(d3.keys, d3.items)

\* the dict without key
without_key(dict, key) ==
    LET kept == {i \in 1..Len(dict.keys) : dict.keys[i] # key}
        at(n) == CHOOSE i \in kept :
                     Cardinality({j \in kept : j < i}) = n - 1
    IN  ValueRef_Dict([n \in 1..Cardinality(kept) |-> dict.keys[at(n)]],
                      [n \in 1..Cardinality(kept) |-> dict.items[at(n)]])

\* dict.get(key)
dict_get(dict, key) ==
    IF \E i \in 1..Len(dict.keys) : dict.keys[i] = key
    THEN [some |-> TRUE,
          v |-> dict.items[CHOOSE i \in 1..Len(dict.keys) : dict.keys[i] = key]]
    ELSE [some |-> FALSE, v |-> ValueRef_Int(0)]

\* a byte string of 6 or 18 bytes is an endpoint
is_endpoint_of_v4_only(len) == len = 6

is_endpoint(len) == len = 6 \/ len = 18

\* read_endpoint_list: the byte strings of another length are skipped
RECURSIVE read_endpoint_list(_)
read_endpoint_list(values) ==
    IF values = <<>> THEN <<>>
    ELSE LET v == Head(values)
         IN  IF v.kind = "String" /\ is_endpoint(Len(v.bytes))
             THEN <<IF Len(v.bytes) = 6 THEN read_v4_socket_address(v.bytes)
                    ELSE read_v6_socket_address(v.bytes)>>
                      \o read_endpoint_list(Tail(values))
             ELSE read_endpoint_list(Tail(values))

\* the loop of extract_node_ids: strings of 24 or 36 bytes are split at 20
RECURSIVE read_nids(_)
read_nids(list) ==
    IF list = <<>> THEN <<>>
    ELSE LET nid == Head(list)
             s == nid.bytes
             id == SubSeq(s, 1, 20)
             addr == SubSeq(s, 21, Len(s))
         IN  IF nid.kind = "String" /\ (Len(s) = 24 \/ Len(s) = 36)
             THEN <<[addr |-> IF Len(addr) = 4 THEN read_v4_address(addr)
                              ELSE read_v6_address(addr),
                     id |-> id]>> \o read_nids(Tail(list))
             ELSE read_nids(Tail(list))

extract_node_ids(value, key) ==
    IF value.kind # "Dict" THEN <<>>
    ELSE LET got == dict_get(value, key)
         IN  IF ~ got.some THEN <<>>
             ELSE IF got.v.kind = "String" /\ Len(got.v.bytes) = 20
             THEN <<[addr |-> Ipv4Addr_LOCALHOST, id |-> got.v.bytes]>>
             ELSE IF got.v.kind = "List" THEN read_nids(got.v.items)
             ELSE <<>>

\* the endpoints under key, when it holds a list
endpoints_at(dict, key) ==
    LET got == dict_get(dict, key)
    IN  IF got.some /\ got.v.kind = "List" THEN read_endpoint_list(got.v.items)
        ELSE <<>>

\* DhtState::read
DhtState_read(value) ==
    IF value.kind # "Dict" THEN DhtState_default
    ELSE DhtState_new(extract_node_ids(value, KeyNodeId),
                      endpoints_at(value, KeyNodes),
                      endpoints_at(value, KeyNodes6))

\* ------------------------------------------------------------------------
\* Settings (dht/src/settings.rs)
\* ------------------------------------------------------------------------
\* DhtSettings::default
DhtSettings_default ==
    [max_peers_reply |-> 100,
     search_branching |-> 5,
     max_fail_count |-> 20,
     max_torrents |-> 2000,
     max_dht_items |-> 700,
     max_peers |-> 500,
     max_torrent_search_reply |-> 20,
     restrict_routing_ips |-> TRUE,
     restrict_search_ips |-> TRUE,
     extended_routing_table |-> TRUE,
     aggressive_lookups |-> TRUE,
     privacy_lookups |-> FALSE,
     enforce_node_id |-> FALSE,
     ignore_dark_internet |-> TRUE,
     block_timeout |-> 5 * 60,
     block_ratelimit |-> 5,
     read_only |-> FALSE,
     item_lifetime |-> 0,
     upload_rate_limit |-> 8000,
     sample_infohashes_interval |-> 21600,
     max_infohashes_sample_count |-> 20]

\* the options written by set_int! and set_bool!, in the order of save
IntOptions ==
    <<"max_peers_reply", "search_branching", "max_fail_count", "max_torrents",
      "max_dht_items", "max_peers", "max_torrent_search_reply",
      "block_timeout", "block_ratelimit", "item_lifetime">>

BoolOptions ==
    <<"restrict_routing_ips", "restrict_search_ips", "extended_routing_table",
      "aggressive_lookups", "privacy_lookups", "enforce_node_id",
      "ignore_dark_internet", "read_only">>

\* stringify!(key): the bytes of the option's name; zzz is no option
stringify ==
    [ max_peers_reply |->
         <<109, 97, 120, 95, 112, 101, 101, 114, 115, 95, 114, 101, 112,
           108, 121>>,
     search_branching |->
         <<115, 101, 97, 114, 99, 104, 95, 98, 114, 97, 110, 99, 104, 105,
           110, 103>>,
     max_fail_count |->
         <<109, 97, 120, 95, 102, 97, 105, 108, 95, 99, 111, 117, 110, 116>>,
     max_torrents |->
         <<109, 97, 120, 95, 116, 111, 114, 114, 101, 110, 116, 115>>,
     max_dht_items |->
         <<109, 97, 120, 95, 100, 104, 116, 95, 105, 116, 101, 109, 115>>,
     max_peers |->
         <<109, 97, 120, 95, 112, 101, 101, 114, 115>>,
     max_torrent_search_reply |->
         <<109, 97, 120, 95, 116, 111, 114, 114, 101, 110, 116, 95, 115,
           101, 97, 114, 99, 104, 95, 114, 101, 112, 108, 121>>,
     block_timeout |->
         <<98, 108, 111, 99, 107, 95, 116, 105, 109, 101, 111, 117, 116>>,
     block_ratelimit |->
         <<98, 108, 111, 99, 107, 95, 114, 97, 116, 101, 108, 105, 109,
           105, 116>>,
     item_lifetime |->
         <<105, 116, 101, 109, 95, 108, 105, 102, 101, 116, 105, 109, 101>>,
     restrict_routing_ips |->
         <<114, 101, 115, 116, 114, 105, 99, 116, 95, 114, 111, 117, 116,
           105, 110, 103, 95, 105, 112, 115>>,
     restrict_search_ips |->
         <<114, 101, 115, 116, 114, 105, 99, 116, 95, 115, 101, 97, 114,
           99, 104, 95, 105, 112, 115>>,
     extended_routing_table |->
         <<101, 120, 116, 101, 110, 100, 101, 100, 95, 114, 111, 117, 116,
           105, 110, 103, 95, 116, 97, 98, 108, 101>>,
     aggressive_lookups |->
         <<97, 103, 103, 114, 101, 115, 115, 105, 118, 101, 95, 108, 111,
           111, 107, 117, 112, 115>>,
     privacy_lookups |->
         <<112, 114, 105, 118, 97, 99, 121, 95, 108, 111, 111, 107, 117,
           112, 115>>,
     enforce_node_id |->
         <<101, 110, 102, 111, 114, 99, 101, 95, 110, 111, 100, 101, 95,
           105, 100>>,
     ignore_dark_internet |->
         <<105, 103, 110, 111, 114, 101, 95, 100, 97, 114, 107, 95, 105,
           110, 116, 101, 114, 110, 101, 116>>,
     read_only |->
         <<114, 101, 97, 100, 95, 111, 110, 108, 121>>,
     zzz |->
         <<122, 122, 122>>]

\* set_int!: dict.insert(key, Value::with_int(settings.key as i64))
RECURSIVE set_ints(_, _, _)
set_ints(dict, keys, settings) ==
    IF keys = <<>> THEN dict
    ELSE set_ints(btree_insert(dict.keys, dict.items, stringify[Head(keys)],
                               ValueRef_Int(settings[Head(keys)])),
                  Tail(keys), settings)

\* set_bool!: dict.insert(key, Value::with_int(if settings.key {1} else {0}))
RECURSIVE set_bools(_, _, _)
set_bools(dict, keys, settings) ==
    IF keys = <<>> THEN dict
    ELSE set_bools(btree_insert(dict.keys, dict.items, stringify[Head(keys)],
                                ValueRef_Int(IF settings[Head(keys)] THEN 1
                                             ELSE 0)),
                   Tail(keys), settings)

\* DhtSettings::save
DhtSettings_save(settings) ==
    LET ints == set_ints([keys |-> <<>>, items |-> <<>>], IntOptions, settings)
        all == set_bools(ints, BoolOptions, settings)
    IN  ValueRef_Dict(all.keys, all.items)

\* read_int!, read_bool!: value.as_int().unwrap() panics on another kind. A
\* negative integer read as usize wraps around; settings.panicked records a
\* panic
RECURSIVE read_options(_, _, _, _)
read_options(settings, dict, keys, bool) ==
    IF keys = <<>> THEN settings
    ELSE LET got == dict_get(dict, stringify[Head(keys)])
             rest == Tail(keys)
         IN  IF ~ got.some THEN read_options(settings, dict, rest, bool)
             ELSE IF got.v.kind # "Int"
             THEN [settings EXCEPT !.panicked = TRUE]
             ELSE read_options(
                      [settings EXCEPT ![Head(keys)] =
                          IF bool THEN got.v.n # 0 ELSE got.v.n],
                      dict, rest, bool)

\* DhtSettings::read
DhtSettings_read(node) ==
    LET settings == DhtSettings_default @@ [panicked |-> FALSE]
    IN  IF node.kind # "Dict" THEN settings
        ELSE read_options(read_options(settings, node, IntOptions, FALSE),
                          node, BoolOptions, TRUE)

\* ------------------------------------------------------------------------
\* Storage engine (dht/src/storage.rs): get_immutable_item, get_mutable_item
\* ------------------------------------------------------------------------
\* tick: the body is unimplemented!(), which panics
tick(map, immutable, mutable) ==
    [map |-> map, immutable |-> immutable, mutable |-> mutable,
     status |-> "panic"]

\* what a get hands back: status "ok" with the returned bool, or "panic";
\* has_v, has_seq and filled tell which keys were written to the item dict
ItemReply(status, ret) ==
    [status |-> status, ret |-> ret, has_v |-> FALSE, v |-> ValueRef_Int(0),
     has_seq |-> FALSE, seq |-> 0, filled |-> FALSE, sig |-> <<>>, k |-> <<>>]

\* debug_assert!(false, ..): a panic in a debug build, nothing in a release
\* build
debug_assert_false(bld, reply) ==
    IF bld = "debug" THEN ItemReply("panic", FALSE) ELSE reply

\* get_immutable_item; item is the kind of the Value handed in
get_immutable_item(table, target, item, bld) ==
    IF target \notin DOMAIN table THEN ItemReply("ok", FALSE)
    ELSE IF item # "dict"
    THEN debug_assert_false(bld, ItemReply("ok", TRUE))
    ELSE LET d == Value_decode(table[target].value)
         IN  IF d.err = "none"
             THEN [ItemReply("ok", TRUE) EXCEPT !.has_v = TRUE, !.v = d.value]
             ELSE debug_assert_false(bld, ItemReply("ok", TRUE))

\* get_mutable_item
get_mutable_item(table, target, seq, force_fill, item) ==
    IF target \notin DOMAIN table THEN ItemReply("ok", FALSE)
    ELSE IF item # "dict" THEN ItemReply("panic", FALSE)
    ELSE LET f == table[target]
             with_seq == [ItemReply("ok", TRUE) EXCEPT
                             !.has_seq = TRUE, !.seq = f.seq]
             d == Value_decode(f.value)
         IN  IF force_fill \/ (0 <= seq /\ seq < f.seq)
             THEN IF d.err # "none" THEN ItemReply("panic", FALSE)
                  ELSE [with_seq EXCEPT !.has_v = TRUE, !.v = d.value,
                                        !.filled = TRUE, !.sig = f.sig,
                                        !.k = f.key]
             ELSE with_seq

\* ------------------------------------------------------------------------
\* RoutingTable::find_neighbours (dht/src/routing.rs), NodeHeap
\* (dht/src/node.rs) and Protocol (dht/src/protocol.rs)
\* ------------------------------------------------------------------------
\* Bucket::get_nodes: the primary contacts in ascending order of id
get_nodes(b) == MapValues(b.nodes)

\* Node::same_home_as
same_home_as(a, b) == a.addr = b.addr

\* derived Ord for Node: by id, then by addr (ip, then port)
NodeLess(a, b) ==
    \/ IdLess(a.id, b.id)
    \/ /\ a.id = b.id
       /\ \/ a.addr[1] < b.addr[1]
          \/ a.addr[1] = b.addr[1] /\ a.addr[2] < b.addr[2]

\* the bucket indices TableIterator::next moves to once the bucket it is on
\* is exhausted; l and r are left_bucket_index and right_bucket_index,
\* counted from 1
RECURSIVE NextBuckets(_, _, _, _)
NextBuckets(n, l, r, left) ==
    IF left /\ l > 1 THEN <<l - 1>> \o NextBuckets(n, l - 1, r, FALSE)
    ELSE IF r < n THEN <<r + 1>> \o NextBuckets(n, l, r + 1, TRUE)
    ELSE <<>>

RECURSIVE NodesOf(_, _)
NodesOf(buckets, order) ==
    IF order = <<>> THEN <<>>
    ELSE get_nodes(buckets[Head(order)]) \o NodesOf(buckets, Tail(order))

\* the contacts in the order TableIterator yields them
TableIterator(buckets, start) ==
    LET index == bucket_index_of(buckets, start.id)
    IN  NodesOf(buckets,
                <<index>> \o NextBuckets(Len(buckets), index, index, TRUE))

\* NodeHeap::len
NodeHeap_len(heap, max_size) ==
    IF Cardinality(heap) < max_size THEN Cardinality(heap) ELSE max_size

\* a heap whose items compare by dist without the reversal: the item
\* popped first is the one of greatest dist
PoppedFirst_of_greatest_dist(heap, origin) ==
    CHOOSE n \in heap : \A m \in heap \ {n} :
        \/ dist_to(origin.id, n.id) > dist_to(origin.id, m.id)
        \/ /\ dist_to(origin.id, n.id) = dist_to(origin.id, m.id)
           /\ NodeLess(m, n)

\* Ord for NodeHeapItem: the item popped first is the one of least dist,
\* and among those of one dist the greatest node
PoppedFirst(heap, origin) ==
    CHOOSE n \in heap : \A m \in heap \ {n} :
        \/ dist_to(origin.id, n.id) < dist_to(origin.id, m.id)
        \/ /\ dist_to(origin.id, n.id) = dist_to(origin.id, m.id)
           /\ NodeLess(m, n)

\* NodeHeap::closest: pops every item, keeps the first max_size
RECURSIVE closest(_, _, _, _)
closest(heap, origin, max_size, items) ==
    IF heap = {} THEN items
    ELSE LET n == PoppedFirst(heap, origin)
         IN  closest(heap \ {n}, origin, max_size,
                     IF Len(items) < max_size THEN items \o <<n>> ELSE items)

\* the loop of find_neighbours over the contacts the iterator yields; the
\* heap is the set of nodes pushed (NodeHeap::push skips a node it contains)
RECURSIVE collect_neighbours(_, _, _, _, _)
collect_neighbours(nodes, heap, node, k, exclude) ==
    IF nodes = <<>> THEN heap
    ELSE LET neighbour == Head(nodes)
             pushed == heap \cup {neighbour}
         IN  IF exclude.some /\ same_home_as(neighbour, exclude.v)
             THEN collect_neighbours(Tail(nodes), heap, node, k, exclude)
             ELSE IF neighbour.id # node.id
             THEN IF NodeHeap_len(pushed, k) = k THEN pushed
                  ELSE collect_neighbours(Tail(nodes), pushed, node, k,
                                          exclude)
             ELSE collect_neighbours(Tail(nodes), heap, node, k, exclude)

\* find_neighbours: how the call ends and the contacts it returns
find_neighbours(buckets, ksize, node, k, exclude) ==
    LET kk == IF k.some THEN k.v ELSE ksize
    IN  IF lookup_panics(buckets, node.id)
        THEN [status |-> "panic", nodes |-> <<>>]
        ELSE [status |-> "ok",
              nodes |-> closest(
                  collect_neighbours(TableIterator(buckets, node), {}, node,
                                     kk, exclude),
                  node, kk, <<>>)]

\* RoutingTable::is_new_node: true of a node its bucket holds as a primary
RoutingTable_is_new_node(buckets, node) ==
    is_new_node(buckets[bucket_index_of(buckets, node.id)], node.id)

\* Protocol::welcome_if_new; the loop over the stored keys calls
\* find_neighbours and changes nothing
welcome_if_new(buckets, own, node, t, room) ==
    IF lookup_panics(buckets, node.id)
    THEN [status |-> "panic", buckets |-> buckets, splits |-> 0]
    ELSE IF ~ RoutingTable_is_new_node(buckets, node)
    THEN [status |-> "ok", buckets |-> buckets, splits |-> 0]
    ELSE add_contact(buckets, own, node, t, room, 0)

\* ------------------------------------------------------------------------
\* Inputs of the storage engine
\* ------------------------------------------------------------------------
InfoHashes == {IdFrom(<<b>>, 17) : b \in {16, 32}}

InfoHash1 == IdFrom(<<16>>, 17)

Ep4a == SocketAddrV4(1, 2)
Ep4b == SocketAddrV4(2, 1)
Ep6a == SocketAddrV6(7, 1, 0, 0)
Ep6b == SocketAddrV6(7, 1, 1, 0)

\* the (endpoint, name, seed) arguments of the announces
Announces ==
    {[endpoint |-> Ep4a, name |-> <<>>, seed |-> FALSE],
     [endpoint |-> Ep4b, name |-> <<"a", "b">>, seed |-> TRUE],
     [endpoint |-> Ep6a, name |-> <<>>, seed |-> FALSE],
     [endpoint |-> Ep6b, name |-> <<>>, seed |-> FALSE]}

\* the requesters of get_peers
Ep4c == SocketAddrV4(3, 1)

Requesters == {Ep4a, Ep4c, Ep6a, Ep6b}

\* the peers arguments of get_peers
PeersValues ==
    {PeersValue("dict", "list"), PeersValue("dict", "absent"),
     PeersValue("dict", "int"), PeersValue("int", "absent")}

\* no storage call is waiting for its caller
NoStCall ==
    [called |-> FALSE, op |-> "none", info_hash |-> MinId, endpoint |-> Ep4a,
     no_seed |-> FALSE, scrape |-> FALSE,
     peers |-> PeersValue("dict", "list"), reply |-> GetPeersReply("ok", FALSE),
     target |-> MinId, item |-> "dict", seq |-> 0, force_fill |-> FALSE,
     got |-> ItemReply("ok", FALSE)]

\* DhtSettings::default: max_peers_reply
MaxPeersReply == 100

\* max_peers_reply: none, one, two for an IPv4 requester, two for each family
MaxPeersReplyChoices == {0, 1, 2, 8}

MaxPeersMore == {1, 2, 3}

\* the announces with a third IPv4 peer
MoreAnnounces ==
    Announces \cup {[endpoint |-> Ep4c, name |-> <<>>, seed |-> FALSE]}

\* the announcers whose bloom filter bits collide
CollidingAddrs == DOMAIN CollidingDigest

MaxTorrentsChoices == {0, 1}

\* max_torrents, max_peers, max_dht_items: none or one
CapacityChoices == {0, 1}

MaxPeersChoices == {1, 2}

MaxItemsChoices == {1, 2}

Builds == {"debug", "release"}

\* the local node id, and a second one for a second network
LocalId == IdFrom(<<64>>, 64)

LocalId2 == IdFrom(<<191>>, 7)

NodeIdLists == {<<LocalId>>, <<LocalId, LocalId2>>}

\* targets at distance exponents 0, 5 and 159 from LocalId
TargetNear == LocalId

TargetMid == [LocalId EXCEPT ![SIZE] = 96]

TargetFar == [LocalId EXCEPT ![1] = 192]

Targets == {TargetNear, TargetMid, TargetFar}

ItemTargets == {TargetMid, TargetFar}

Addrs == {<<10, 0, 0, 1>>, <<10, 0, 0, 2>>}

ManyAddrs == DOMAIN AddrDigest

\* who announces which target: the near target is the popular one
AnnouncersOf(target) == IF target = TargetNear THEN ManyAddrs ELSE Addrs

\* the bytes stored under an immutable target: the bencoded integer whose
\* digit is the last digit of the target's first byte
ValueOf(target) == <<105, 48 + (target[1] % 10), 101>>

SigOf(b) == [i \in 1..64 |-> b]

KeyOf(b) == [i \in 1..32 |-> b]

\* the (buf, signature, seq, pk, salt) arguments of the mutable puts
MutablePuts ==
    {[buf |-> <<105, 49, 101>>, sig |-> SigOf(1), seq |-> 1, pk |-> KeyOf(1),
      salt |-> EmptyBytes],
     [buf |-> <<105, 50, 101>>, sig |-> SigOf(2), seq |-> 2, pk |-> KeyOf(1),
      salt |-> EmptyBytes],
     [buf |-> <<105, 51, 101>>, sig |-> SigOf(3), seq |-> 1, pk |-> KeyOf(3),
      salt |-> <<115>>]}

\* the mutable put of the colliding announcers
AnnouncerPuts == {p \in MutablePuts : p.seq = 2}

\* the bytes put under the immutable targets: "i1e", "d1:ai2ee", and "x",
\* which is no bencode
ItemBytes == {<<105, 49, 101>>, <<100, 49, 58, 97, 105, 50, 101, 101>>, <<120>>}

\* a mutable put of bytes that are no bencode
RawPut ==
    [buf |-> <<120>>, sig |-> SigOf(3), seq |-> 1, pk |-> KeyOf(1),
     salt |-> EmptyBytes]

\* the item arguments of the gets: a dict, or another Value
ItemKinds == {"dict", "int"}

\* the seq arguments of get_mutable_item
SeqChoices == {-1, 0, 2}

\* ------------------------------------------------------------------------
\* Inputs of the codec
\* ------------------------------------------------------------------------
IntChoices == {0 - 12, 0, 7}

\* "", "a", ":e", "1:" and the byte 255
ByteStrings == {<<>>, <<97>>, <<58, 101>>, <<49, 58>>, <<255>>}

\* the keys "" and "a", in the order of the map
KeyA == <<97>>

Atoms ==
    {ValueRef_Int(n) : n \in IntChoices}
        \cup {ValueRef_String(b) : b \in ByteStrings}

SeqsUpTo2(S) == {<<>>} \cup {<<x>> : x \in S} \cup {<<x, y>> : x, y \in S}

FlatLists == {ValueRef_List(items) : items \in SeqsUpTo2(Atoms)}

FlatDicts ==
    {ValueRef_Dict(<<>>, <<>>)}
        \cup {ValueRef_Dict(<<k>>, <<x>>) : k \in {<<>>, KeyA}, x \in Atoms}
        \cup {ValueRef_Dict(<<<<>>, KeyA>>, <<x, y>>) : x, y \in Atoms}

Containers ==
    {ValueRef_List(<<>>), ValueRef_List(<<ValueRef_String(<<>>)>>),
     ValueRef_Dict(<<>>, <<>>),
     ValueRef_Dict(<<<<>>>>, <<ValueRef_String(<<>>)>>),
     ValueRef_List(<<ValueRef_Int(7), ValueRef_String(KeyA)>>)}

NestedValues ==
    {ValueRef_List(items) :
        items \in SeqsUpTo2(Containers \cup {ValueRef_String(<<>>)}) \ {<<>>}}
        \cup {ValueRef_Dict(<<KeyA>>, <<x>>) : x \in Containers}

\* d lists, each but the innermost holding the next
RECURSIVE NestedLists(_)
NestedLists(d) ==
    IF d = 1 THEN ValueRef_List(<<>>)
    ELSE ValueRef_List(<<NestedLists(d - 1)>>)

DeepLists == {NestedLists(d) : d \in 1..MaxNest}

Values == Atoms \cup FlatLists \cup FlatDicts \cup NestedValues \cup DeepLists

DepthLimits == {None} \cup {Some(limit) : limit \in 0..MaxLimit}

\* the input of decode_item_limit at a smaller length: m empty strings in a
\* list
ManyStrings(m) == ValueRef_List([i \in 1..m |-> ValueRef_String(<<>>)])

StringLists == {ManyStrings(m) : m \in 1..MaxStrings}

ItemLimits == {None} \cup {Some(limit) : limit \in 0..MaxItemLimit}

\* bytes after the top-level value: "1", "x", "e", "i1e", "ee", "le"
Trailing ==
    {<<49>>, <<120>>, <<101>>, <<105, 49, 101>>, <<101, 101>>, <<108, 101>>}

\* the texts of integer tokens: no sign, '+' or '-', then up to MaxDigits
\* bytes among '0', '1', '9' and 'a'; and the two texts next to the range
\* of i64
SeqsUpTo(S, n) == UNION {[1..m -> S] : m \in 0..n}

OutOfRangeTexts ==
    {I64MinDigits, <<45>> \o SubSeq(I64MinDigits, 1, 18) \o <<57>>}

IntTexts ==
    {sign \o body : sign \in {<<>>, <<43>>, <<45>>},
                    body \in SeqsUpTo({48, 49, 57, 97}, MaxDigits)}
        \cup OutOfRangeTexts

\* the states saved: up to two node ids, endpoints and IPv6 endpoints
NodeIdPairs ==
    {[addr |-> IpAddr(FALSE, 100), id |-> LocalId],
     [addr |-> IpAddr(TRUE, 7), id |-> LocalId2]}

DhtStates ==
    {DhtState_new(nids, nodes, nodes6) :
        nids \in SeqsUpTo2(NodeIdPairs), nodes \in SeqsUpTo2({Ep4a, Ep4b, Ep6a}),
        nodes6 \in SeqsUpTo2({Ep6a, Ep6b})}

\* the settings saved: the default, or another value, in six options
SettingsValues ==
    {[DhtSettings_default EXCEPT !.max_peers_reply = a, !.max_torrents = b,
                                 !.read_only = c, !.restrict_routing_ips = d,
                                 !.item_lifetime = e, !.upload_rate_limit = f] :
        a \in {MaxPeersReply, 0}, b \in {2000, 1}, c \in BOOLEAN, d \in BOOLEAN,
        e \in {0, 7}, f \in {8000, 1}}

\* the options whose key is dropped from a saved dict
DroppedOptions == {"max_peers_reply", "read_only", "restrict_routing_ips"}

\* the shift counts: none, within a byte, whole bytes, bytes and bits, and
\* the width of the value and beyond
ShiftCounts == {0, 1, 5, 7, 8, 16, 17, 80, 152, 159, 160, 161, 300}

\* the values shifted: 00.., ff.., 40.., bf 07.., 00..05, c0 00..
ShiftOperands ==
    {[x |-> x, n |-> n] :
        x \in {MinId, MaxId, LocalId, LocalId2, LowId, HighId}, n \in ShiftCounts}

\* a call has a depth limit, an item limit or neither
Limits ==
    {<<d, None>> : d \in DepthLimits} \cup {<<None, n>> : n \in ItemLimits}

\* ------------------------------------------------------------------------
\* Actions
\* ------------------------------------------------------------------------
AdvanceClock ==
    /\ now < MaxTime
    /\ now' = now + 1

AddContact(node) ==
    /\ rt_status = "ok"
    /\ ~ rt_call.called
    /\ Len(rt_buckets) < MaxBuckets
    /\ LET r == add_contact(rt_buckets, rt_node, node, now, MaxRecursion, 0)
       IN  /\ rt_buckets' = r.buckets
           /\ rt_status' = r.status
           /\ rt_call' = [NoCall EXCEPT !.called = TRUE, !.op = "add_contact",
                                        !.node = node, !.splits = r.splits]
    /\ UNCHANGED <<rt_node, rt_ksize, now>>
    /\ UNCHANGED <<st_vars, bc_vars>>

RemoveContact(node) ==
    /\ rt_status = "ok"
    /\ ~ rt_call.called
    /\ IF lookup_panics(rt_buckets, node.id)
       THEN rt_status' = "panic" /\ rt_buckets' = rt_buckets
       ELSE rt_status' = "ok" /\ rt_buckets' = remove_contact(rt_buckets, node)
    /\ UNCHANGED <<rt_node, rt_ksize, rt_call, now>>
    /\ UNCHANGED <<st_vars, bc_vars>>

\* find_neighbours(node, k, exclude) returns to its caller, who calls the
\* table again after going on
FindNeighbours(node, k, exclude) ==
    /\ rt_status = "ok"
    /\ ~ rt_call.called
    /\ LET r == find_neighbours(rt_buckets, rt_ksize, node, k, exclude)
       IN  /\ rt_status' = r.status
           /\ rt_call' = [called |-> TRUE, op |-> "find_neighbours",
                          node |-> node, k |-> k, exclude |-> exclude,
                          nodes |-> r.nodes]
    /\ UNCHANGED <<rt_node, rt_ksize, rt_buckets, now>>
    /\ UNCHANGED <<st_vars, bc_vars>>

GoOn ==
    /\ rt_status = "ok"
    /\ rt_call.called
    /\ rt_call' = NoCall
    /\ UNCHANGED <<rt_node, rt_ksize, rt_buckets, rt_status, now>>
    /\ UNCHANGED <<st_vars, bc_vars>>

WelcomeIfNew(node) ==
    /\ rt_status = "ok"
    /\ ~ rt_call.called
    /\ Len(rt_buckets) < MaxBuckets
    /\ LET r == welcome_if_new(rt_buckets, rt_node, node, now, MaxRecursion)
       IN  /\ rt_buckets' = r.buckets
           /\ rt_status' = r.status
    /\ rt_call' = [NoCall EXCEPT !.called = TRUE, !.op = "welcome_if_new",
                                 !.node = node]
    /\ UNCHANGED <<rt_node, rt_ksize, now>>
    /\ UNCHANGED <<st_vars, bc_vars>>

AnnouncePeer(info_hash, a) ==
    /\ st_status = "ok"
    /\ ~ st_call.called
    /\ \E out \in announce_peer(st_map, st_counters, st_settings, info_hash,
                                 a.endpoint, a.name, a.seed, now) :
           /\ st_map' = out.map
           /\ st_counters' = out.counters
    /\ st_call' = [NoStCall EXCEPT !.called = TRUE, !.op = "announce_peer",
                                   !.info_hash = info_hash,
                                   !.endpoint = a.endpoint]
    /\ UNCHANGED <<build, st_settings, st_node_ids, st_immutable, st_mutable,
                   st_status, put_max_seq, put_hist, now>>
    /\ UNCHANGED <<rt_vars, bc_vars>>

UpdateNodeIds(ids) ==
    /\ st_status = "ok"
    /\ st_node_ids' = ids
    /\ UNCHANGED <<build, st_settings, st_map, st_immutable, st_mutable,
                   st_counters, st_status, put_max_seq, put_hist, st_call,
                   now>>
    /\ UNCHANGED <<rt_vars, bc_vars>>

GetPeers(info_hash, no_seed, scrape, requester, peers) ==
    /\ st_status = "ok"
    /\ ~ st_call.called
    /\ \E out \in get_peers(st_map, st_settings, info_hash, no_seed, scrape,
                             requester, peers, now) :
           /\ st_call' = [NoStCall EXCEPT !.called = TRUE, !.op = "get_peers",
                                          !.info_hash = info_hash,
                                          !.endpoint = requester,
                                          !.no_seed = no_seed,
                                          !.scrape = scrape, !.peers = peers,
                                          !.reply = out]
           /\ st_status' = IF out.status = "panic" THEN "panic" ELSE "ok"
    /\ UNCHANGED <<build, st_settings, st_node_ids, st_map, st_immutable,
                   st_mutable, st_counters, put_max_seq, put_hist, now>>
    /\ UNCHANGED <<rt_vars, bc_vars>>

GetImmutableItem(target, item) ==
    /\ st_status = "ok"
    /\ ~ st_call.called
    /\ LET out == get_immutable_item(st_immutable, target, item, build)
       IN  /\ st_call' = [NoStCall EXCEPT !.called = TRUE,
                                          !.op = "get_immutable_item",
                                          !.target = target, !.item = item,
                                          !.got = out]
           /\ st_status' = out.status
    /\ UNCHANGED <<build, st_settings, st_node_ids, st_map, st_immutable,
                   st_mutable, st_counters, put_max_seq, put_hist, now>>
    /\ UNCHANGED <<rt_vars, bc_vars>>

GetMutableItem(target, seq, force_fill, item) ==
    /\ st_status = "ok"
    /\ ~ st_call.called
    /\ LET out == get_mutable_item(st_mutable, target, seq, force_fill, item)
       IN  /\ st_call' = [NoStCall EXCEPT !.called = TRUE,
                                          !.op = "get_mutable_item",
                                          !.target = target, !.item = item,
                                          !.seq = seq,
                                          !.force_fill = force_fill,
                                          !.got = out]
           /\ st_status' = out.status
    /\ UNCHANGED <<build, st_settings, st_node_ids, st_map, st_immutable,
                   st_mutable, st_counters, put_max_seq, put_hist, now>>
    /\ UNCHANGED <<rt_vars, bc_vars>>

\* the caller of announce_peer or get_peers goes on
StGoOn ==
    /\ st_status = "ok"
    /\ st_call.called
    /\ st_call' = NoStCall
    /\ UNCHANGED <<build, st_settings, st_node_ids, st_map, st_immutable,
                   st_mutable, st_counters, st_status, put_max_seq, put_hist,
                   now>>
    /\ UNCHANGED <<rt_vars, bc_vars>>

\* tick: unimplemented!() is reached before anything is pruned
Tick ==
    /\ st_status = "ok"
    /\ ~ st_call.called
    /\ LET out == tick(st_map, st_immutable, st_mutable)
       IN  /\ st_map' = out.map
           /\ st_immutable' = out.immutable
           /\ st_mutable' = out.mutable
           /\ st_status' = out.status
    /\ st_call' = [NoStCall EXCEPT !.called = TRUE, !.op = "tick"]
    /\ UNCHANGED <<build, st_settings, st_node_ids, st_counters, put_max_seq,
                   put_hist, now>>
    /\ UNCHANGED <<rt_vars, bc_vars>>

\* the puts are called once the local ids are known (debug_assert)
\* the history of a table after a put of (target, bytes) from addr
Logged(hist, old, new, target, bytes, addr) ==
    [k \in DOMAIN new |->
        IF k # target THEN hist[k]
        ELSE IF target \in DOMAIN old
        THEN [hist[k] EXCEPT !.addrs = @ \cup {addr}]
        ELSE [addrs |-> {addr}, first |-> bytes]]

PutImmutableItem(target, item, addr) ==
    /\ st_status = "ok"
    /\ ~ st_call.called
    /\ st_node_ids # <<>>
    /\ \E out \in put_immutable_item(st_immutable, st_counters, st_settings,
                                      st_node_ids, build, target, item, addr,
                                      now) :
           /\ st_immutable' = out.table
           /\ st_counters' = out.counters
           /\ st_status' = out.status
           /\ put_hist' = [put_hist EXCEPT !.imm =
                  Logged(@, st_immutable, out.table, target, item, addr)]
    /\ UNCHANGED <<build, st_settings, st_node_ids, st_map, st_mutable,
                   put_max_seq, st_call, now>>
    /\ UNCHANGED <<rt_vars, bc_vars>>

PutMutableItem(target, p, addr) ==
    /\ st_status = "ok"
    /\ ~ st_call.called
    /\ st_node_ids # <<>>
    /\ st_counters.mutable_data < MaxCount
    /\ \E out \in put_mutable_item(st_mutable, st_counters, st_settings,
                                    st_node_ids, build, target, p.buf, p.sig,
                                    p.seq, p.pk, p.salt, addr, now) :
           /\ st_mutable' = out.table
           /\ st_counters' = out.counters
           /\ st_status' = out.status
           /\ put_max_seq' =
                  [k \in DOMAIN out.table |->
                      IF k # target THEN put_max_seq[k]
                      ELSE IF target \in DOMAIN st_mutable
                              /\ put_max_seq[k] > p.seq
                      THEN put_max_seq[k] ELSE p.seq]
           /\ put_hist' = [put_hist EXCEPT !.mut =
                  Logged(@, st_mutable, out.table, target, p.buf, addr)]
    /\ UNCHANGED <<build, st_settings, st_node_ids, st_map, st_immutable,
                   st_call, now>>
    /\ UNCHANGED <<rt_vars, bc_vars>>

Encode ==
    /\ bc_pc = "value"
    /\ bc_bytes' = encode(bc_value)
    /\ bc_pc' = "bytes"
    /\ UNCHANGED <<bc_value, bc_depth_limit, bc_item_limit, bc_result,
                   io_arg, io_ret, now>>
    /\ UNCHANGED <<rt_vars, st_vars>>

\* the Value of lib.rs is encoded
LibEncode ==
    /\ bc_pc = "value"
    /\ bc_bytes' = lib_encode(bc_value)
    /\ bc_pc' = "lib_bytes"
    /\ UNCHANGED <<bc_value, bc_depth_limit, bc_item_limit, bc_result,
                   io_arg, io_ret, now>>
    /\ UNCHANGED <<rt_vars, st_vars>>

Decode ==
    /\ bc_pc = "bytes"
    /\ bc_result' = decode_with_limits(bc_bytes, bc_depth_limit,
                                       bc_item_limit)
    /\ bc_pc' = "done"
    /\ UNCHANGED <<bc_value, bc_bytes, bc_depth_limit, bc_item_limit,
                   io_arg, io_ret, now>>
    /\ UNCHANGED <<rt_vars, st_vars>>

\* main: the state is saved and the Value is encoded
SaveState ==
    /\ bc_pc = "value"
    /\ bc_value' = DhtState_save(io_arg)
    /\ bc_bytes' = encode(DhtState_save(io_arg))
    /\ bc_pc' = "saved"
    /\ UNCHANGED <<bc_depth_limit, bc_item_limit, bc_result, io_arg, io_ret,
                   now>>
    /\ UNCHANGED <<rt_vars, st_vars>>

\* main: the bytes are decoded and the state is read
ReadState ==
    /\ bc_pc = "saved"
    /\ bc_result' = decode(bc_bytes)
    /\ io_ret' = IF decode(bc_bytes).err = "none"
                 THEN [op |-> "read", state |-> DhtState_read(decode(bc_bytes).value)]
                 ELSE [op |-> "panic"]
    /\ bc_pc' = "read"
    /\ UNCHANGED <<bc_value, bc_bytes, bc_depth_limit, bc_item_limit, io_arg,
                   now>>
    /\ UNCHANGED <<rt_vars, st_vars>>

\* the settings are saved
SaveSettings ==
    /\ bc_pc = "value"
    /\ bc_value' = DhtSettings_save(io_arg)
    /\ bc_pc' = "saved"
    /\ UNCHANGED <<bc_bytes, bc_depth_limit, bc_item_limit, bc_result, io_arg,
                   io_ret, now>>
    /\ UNCHANGED <<rt_vars, st_vars>>

\* the saved dict loses the key of an option
DropKey(option) ==
    /\ bc_pc = "saved"
    /\ bc_value' = without_key(bc_value, stringify[option])
    /\ bc_pc' = "edited"
    /\ UNCHANGED <<bc_bytes, bc_depth_limit, bc_item_limit, bc_result, io_arg,
                   io_ret, now>>
    /\ UNCHANGED <<rt_vars, st_vars>>

\* the saved dict gets a key that is no option
AddUnknownKey ==
    /\ bc_pc \in {"saved", "edited"}
    /\ ~ dict_get(bc_value, stringify.zzz).some
    /\ LET d == btree_insert(bc_value.keys, bc_value.items, stringify.zzz,
                             ValueRef_String(<<>>))
       IN  bc_value' = ValueRef_Dict(d.keys, d.items)
    /\ bc_pc' = "edited"
    /\ UNCHANGED <<bc_bytes, bc_depth_limit, bc_item_limit, bc_result, io_arg,
                   io_ret, now>>
    /\ UNCHANGED <<rt_vars, st_vars>>

\* the settings are read from the dict
ReadSettings ==
    /\ bc_pc \in {"saved", "edited"}
    /\ io_ret' = [op |-> "read", settings |-> DhtSettings_read(bc_value)]
    /\ bc_pc' = IF bc_pc = "saved" THEN "read" ELSE "read_edited"
    /\ UNCHANGED <<bc_value, bc_bytes, bc_depth_limit, bc_item_limit,
                   bc_result, io_arg, now>>
    /\ UNCHANGED <<rt_vars, st_vars>>

\* x <<= n
Shl ==
    /\ io_ret = NoIo
    /\ \E out \in shl_assign(io_arg.x, io_arg.n) :
           io_ret' = [op |-> "shl", status |-> out.status, data |-> out.data]
    /\ UNCHANGED <<bc_pc, bc_value, bc_bytes, bc_depth_limit, bc_item_limit,
                   bc_result, io_arg, now>>
    /\ UNCHANGED <<rt_vars, st_vars>>

\* x >>= n
Shr ==
    /\ io_ret = NoIo
    /\ \E out \in shr_assign(io_arg.x, io_arg.n) :
           io_ret' = [op |-> "shr", status |-> out.status, data |-> out.data]
    /\ UNCHANGED <<bc_pc, bc_value, bc_bytes, bc_depth_limit, bc_item_limit,
                   bc_result, io_arg, now>>
    /\ UNCHANGED <<rt_vars, st_vars>>

\* the ids and the distances handed to at_dist and dist_to
DistBits == {0, 1, 6, 7, 8, 9, 16, 80, 152, 159}

DistOperands ==
    {[a |-> a, b |-> b, n |-> n] :
        a \in {MinId, MaxId, LocalId, LowId}, b \in {MinId, LocalId, HighId},
        n \in DistBits}

\* a.at_dist(n)
AtDist ==
    /\ io_ret = NoIo
    /\ io_ret' = IF at_dist_panics(io_arg.n)
                 THEN [op |-> "at_dist", status |-> "panic", data |-> MinId]
                 ELSE [op |-> "at_dist", status |-> "ok",
                       data |-> at_dist(io_arg.a, io_arg.n)]
    /\ UNCHANGED <<bc_pc, bc_value, bc_bytes, bc_depth_limit, bc_item_limit,
                   bc_result, io_arg, now>>
    /\ UNCHANGED <<rt_vars, st_vars>>

\* a.dist_to(b)
DistTo ==
    /\ io_ret = NoIo
    /\ io_ret' = [op |-> "dist_to", status |-> "ok",
                  data |-> dist_to(io_arg.a, io_arg.b)]
    /\ UNCHANGED <<bc_pc, bc_value, bc_bytes, bc_depth_limit, bc_item_limit,
                   bc_result, io_arg, now>>
    /\ UNCHANGED <<rt_vars, st_vars>>

\* ------------------------------------------------------------------------
\* NodeHeap (dht/src/node.rs) on its own: the heap is the set of the nodes
\* it holds, io_arg the reference node and max_size, io_ret the heap, the
\* nodes pushed so far and the last call
\* ------------------------------------------------------------------------
MaxHeapSize == 3      \* the largest max_size of a NodeHeap

\* NodeHeap::contains
NodeHeap_contains(heap, node) == node \in heap

\* NodeHeap::push: a node the heap contains is not pushed again
NodeHeap_push(heap, node) ==
    IF ~ NodeHeap_contains(heap, node) THEN heap \cup {node} ELSE heap

RECURSIVE NodeHeap_push_all(_, _)
NodeHeap_push_all(heap, nodes) ==
    IF nodes = <<>> THEN heap
    ELSE NodeHeap_push_all(NodeHeap_push(heap, Head(nodes)), Tail(nodes))

\* NodeHeap::pop: the popped node if any, and the heap left
NodeHeap_pop(heap, origin) ==
    IF heap = {} THEN [ret |-> None, heap |-> heap]
    ELSE LET n == PoppedFirst(heap, origin)
         IN  [ret |-> Some(n), heap |-> heap \ {n}]

\* NodeHeap::get_ids
RECURSIVE IdsOf(_)
IdsOf(nodes) ==
    IF nodes = <<>> THEN <<>> ELSE <<Head(nodes).id>> \o IdsOf(Tail(nodes))

get_ids(heap, origin, max_size) == IdsOf(closest(heap, origin, max_size, <<>>))

\* the reference node of the tests and the nodes pushed: two at distance 2,
\* two of one id with different ports, and the reference node itself
HeapOrigin == Node_new(MinId, 1, 1200)

HeapNodes ==
    {Node_new(at_dist(MinId, 1), 1, 1201), Node_new(at_dist(MinId, 1), 1, 1299),
     Node_new(at_dist(MinId, 2), 1, 1202), Node_new(at_dist(LowId, 2), 1, 1203),
     Node_new(at_dist(MinId, 159), 1, 1204), HeapOrigin}

HeapOperands ==
    {[node |-> HeapOrigin, max_size |-> m] : m \in 0..MaxHeapSize}

NodeHeap_new(node, max_size) ==
    [op |-> "new", heap |-> {}, pushed |-> {}, popped |-> FALSE,
     before |-> {}, ret |-> None]

HeapPush(node) ==
    /\ io_ret' = [io_ret EXCEPT !.op = "push",
                      !.heap = NodeHeap_push(io_ret.heap, node),
                      !.pushed = io_ret.pushed \cup {node},
                      !.before = io_ret.heap, !.ret = None]
    /\ UNCHANGED <<bc_pc, bc_value, bc_bytes, bc_depth_limit, bc_item_limit,
                   bc_result, io_arg, now>>
    /\ UNCHANGED <<rt_vars, st_vars>>

HeapPushAll(nodes) ==
    /\ io_ret' = [io_ret EXCEPT !.op = "push_all",
                      !.heap = NodeHeap_push_all(io_ret.heap, nodes),
                      !.pushed = io_ret.pushed \cup {nodes[i] : i \in DOMAIN nodes},
                      !.before = io_ret.heap, !.ret = None]
    /\ UNCHANGED <<bc_pc, bc_value, bc_bytes, bc_depth_limit, bc_item_limit,
                   bc_result, io_arg, now>>
    /\ UNCHANGED <<rt_vars, st_vars>>

HeapPop ==
    /\ LET out == NodeHeap_pop(io_ret.heap, io_arg.node)
       IN  io_ret' = [io_ret EXCEPT !.op = "pop", !.heap = out.heap,
                          !.popped = TRUE, !.before = io_ret.heap,
                          !.ret = out.ret]
    /\ UNCHANGED <<bc_pc, bc_value, bc_bytes, bc_depth_limit, bc_item_limit,
                   bc_result, io_arg, now>>
    /\ UNCHANGED <<rt_vars, st_vars>>

\* ------------------------------------------------------------------------
\* Protocol::get_refresh_ids (dht/src/protocol.rs); the clock counts seconds
\* ------------------------------------------------------------------------
MaxClock == 3601      \* the clock of the refresh runs up to this reading

\* Duration::from_secs(3600) of stale_buckets
STALE_AFTER == 3600

\* b.last_updated < hour_ago
is_stale(b, t) == b.last_updated < t - STALE_AFTER

\* RoutingTable::stale_buckets: the stale buckets in the order of the vector
RECURSIVE stale_from(_, _, _)
stale_from(buckets, t, i) ==
    IF i > Len(buckets) THEN <<>>
    ELSE (IF is_stale(buckets[i], t) THEN <<buckets[i]>> ELSE <<>>)
             \o stale_from(buckets, t, i + 1)

stale_buckets(buckets, t) == stale_from(buckets, t, 1)

\* the id before id: the borrow runs over the trailing zero bytes
IdPred(id) ==
    LET nz == {i \in 1..SIZE : id[i] # 0}
        last == CHOOSE i \in nz : \A j \in nz : j <= i
    IN  [i \in 1..SIZE |->
            IF i < last THEN id[i] ELSE IF i = last THEN id[i] - 1 ELSE 255]

\* Id::ranged_random: gen_biguint_range(lo, hi) asserts lo < hi and draws
\* from [lo, hi); the draws followed are the two ends of that range and the
\* contact ids within it
ranged_random(lo, hi) ==
    IF ~ IdLess(lo, hi) THEN {[status |-> "panic", id |-> MinId]}
    ELSE {[status |-> "ok", id |-> id] :
             id \in {x \in {lo, IdPred(hi)} \cup ContactIds :
                        IdLeq(lo, x) /\ IdLess(x, hi)}}

\* the results of mapping ranged_random over the stale buckets
RECURSIVE refresh_draws(_)
refresh_draws(stale) ==
    IF stale = <<>> THEN {[status |-> "ok", ids |-> <<>>]}
    ELSE LET rest == refresh_draws(Tail(stale))
             here == ranged_random(Head(stale).lower, Head(stale).upper)
         IN  {IF d.status = "ok" /\ r.status = "ok"
              THEN [status |-> "ok", ids |-> <<d.id>> \o r.ids]
              ELSE [status |-> "panic", ids |-> <<>>] : d \in here, r \in rest}

get_refresh_ids(buckets, t) == refresh_draws(stale_buckets(buckets, t))

\* time passes
PassTime(d) ==
    /\ now + d <= MaxClock
    /\ now' = now + d
    /\ UNCHANGED <<rt_vars, st_vars, bc_vars>>

GetRefreshIds ==
    /\ rt_status = "ok"
    /\ ~ rt_call.called
    /\ io_ret = NoIo
    /\ \E out \in get_refresh_ids(rt_buckets, now) :
           /\ io_ret' = [op |-> "get_refresh_ids", status |-> out.status,
                         ids |-> out.ids, buckets |-> rt_buckets, at |-> now]
           /\ rt_status' = out.status
    /\ UNCHANGED <<bc_pc, bc_value, bc_bytes, bc_depth_limit, bc_item_limit,
                   bc_result, io_arg, now>>
    /\ UNCHANGED <<rt_node, rt_ksize, rt_buckets, rt_call>>
    /\ UNCHANGED st_vars

\* the std::ptr::copy of shl_assign: from data[shift_bytes..] to data[0..]
shl_copy(shift_bytes) ==
    [src |-> shift_bytes, dst |-> 0, count |-> (SIZE - shift_bytes) * 8]

\* the std::ptr::copy of shr_assign: from data[0..] to data[shift_bytes..]
shr_copy(shift_bytes) ==
    [src |-> 0, dst |-> shift_bytes, count |-> (SIZE - shift_bytes) * 8]

\* ------------------------------------------------------------------------
\* parse_magnet_uri (src/magnet_uri.rs): the loop over the tokens of a
\* select-only ("so") parameter; io_arg is the value of the parameter,
\* io_ret the position of the loop
\* ------------------------------------------------------------------------
MaxSoLen == 3         \* the longest select-only value built from the alphabet
MaxIterations == 3    \* the iterations of the loop that are counted

\* let max_index = 10_000
max_index == 10000

\* the first loop of split_string: a leading quote is followed to its
\* closing quote, or to the end
RECURSIVE quoted_len(_, _)
quoted_len(s, pos) ==
    IF pos >= Len(s) THEN pos
    ELSE IF s[pos + 1] = 34 THEN pos
    ELSE quoted_len(s, pos + 1)

\* the second loop of split_string: the position of the separator from pos
\* on, or the length of s
RECURSIVE separator_at(_, _, _)
separator_at(s, separator, pos) ==
    IF pos >= Len(s) THEN pos
    ELSE IF s[pos + 1] = separator THEN pos
    ELSE separator_at(s, separator, pos + 1)

\* str_utl::split_string: the token before the separator and the rest
\* after it
split_string(s, separator) ==
    IF s = <<>> THEN <<s, s>>
    ELSE LET from == IF s[1] = 34 /\ separator # 34
                     THEN quoted_len(s, 1) ELSE 0
             pos == separator_at(s, separator, from)
             found_sep == IF pos < Len(s) THEN 1 ELSE 0
         IN  <<SubSeq(s, 1, pos), SubSeq(s, pos + found_sep + 1, Len(s))>>

\* str_utl::parse_int: str::parse::<isize>
parse_int(s) == parse_i64(s)

\* an index the loop accepts
valid_index(idx) == ~ (idx < 0 \/ idx > max_index)

\* token.iter().position(|&c| c == b'-'), counted from 0; Len(token) if none
divider_of(token) == separator_at(token, 45, 0)

\* what the loop body does with a token: "continue" leaves value as it is,
\* "err" is the ? on parse_int, "set" selects the files idx1..=idx2
select_token(token) ==
    LET divider == divider_of(token)
        first == parse_int(SubSeq(token, 1, divider))
        second == parse_int(SubSeq(token, divider + 2, Len(token)))
        single == parse_int(token)
        Continue == [kind |-> "continue", idx1 |-> 0, idx2 |-> 0]
        Error == [kind |-> "err", idx1 |-> 0, idx2 |-> 0]
    IN  IF token = <<>> THEN Continue
        ELSE IF divider < Len(token)
        THEN IF divider = 0 THEN Continue
             ELSE IF divider = Len(token) - 1 THEN Continue
             ELSE IF ~ first.ok THEN Error
             ELSE IF ~ valid_index(first.n) THEN Continue
             ELSE IF ~ second.ok THEN Error
             ELSE IF ~ valid_index(second.n) THEN Continue
             ELSE IF first.n > second.n THEN Continue
             ELSE [kind |-> "set", idx1 |-> first.n, idx2 |-> second.n]
        ELSE IF ~ single.ok THEN Error
        ELSE IF ~ valid_index(single.n) THEN Continue
        ELSE [kind |-> "set", idx1 |-> single.n, idx2 |-> single.n]

\* file_priorities resized to idx2 + 1 and set from idx1 to idx2
select_files(priorities, idx1, idx2) ==
    [i \in 1..(IF Len(priorities) <= idx2 THEN idx2 + 1 ELSE Len(priorities))
        |-> IF i - 1 >= idx1 /\ i - 1 <= idx2 THEN "DefaultPriority"
            ELSE IF i <= Len(priorities) THEN priorities[i]
            ELSE "DontDownload"]

\* the values of the parameter: the strings of digits, '-' and ',' up to
\* MaxSoLen bytes, and some longer ones
SoValues ==
    SeqsUpTo({49, 50, 45, 44}, MaxSoLen)
        \cup {<<49, 48, 48, 48, 49>>, <<49, 44, 50, 45, 49>>,
              <<49, 45, 50, 44, 44, 50>>, <<50, 45, 49, 44, 49>>}

\* the value passes the test on its characters and the loop is entered
SoEnter ==
    /\ io_ret = NoIo
    /\ io_ret' = [op |-> "so", pc |-> "loop", value |-> io_arg,
                  file_priorities |-> <<>>, iterations |-> 0]
    /\ UNCHANGED <<bc_pc, bc_value, bc_bytes, bc_depth_limit, bc_item_limit,
                   bc_result, io_arg, now>>
    /\ UNCHANGED <<rt_vars, st_vars>>

\* one iteration of while !value.is_empty()
SoIteration ==
    /\ io_ret # NoIo
    /\ io_ret.pc = "loop"
    /\ io_ret.value # <<>>
    /\ LET tr == split_string(io_ret.value, 44)
           did == select_token(tr[1])
           counted == IF io_ret.iterations < MaxIterations
                      THEN io_ret.iterations + 1 ELSE io_ret.iterations
       IN  io_ret' =
               IF did.kind = "continue"
               THEN [io_ret EXCEPT !.iterations = counted]
               ELSE IF did.kind = "err"
               THEN [io_ret EXCEPT !.iterations = counted, !.pc = "err"]
               ELSE [io_ret EXCEPT !.iterations = counted, !.value = tr[2],
                         !.file_priorities =
                             select_files(@, did.idx1, did.idx2)]
    /\ UNCHANGED <<bc_pc, bc_value, bc_bytes, bc_depth_limit, bc_item_limit,
                   bc_result, io_arg, now>>
    /\ UNCHANGED <<rt_vars, st_vars>>

\* value is empty: the loop is left
SoLeave ==
    /\ io_ret # NoIo
    /\ io_ret.pc = "loop"
    /\ io_ret.value = <<>>
    /\ io_ret' = [io_ret EXCEPT !.pc = "done"]
    /\ UNCHANGED <<bc_pc, bc_value, bc_bytes, bc_depth_limit, bc_item_limit,
                   bc_result, io_arg, now>>
    /\ UNCHANGED <<rt_vars, st_vars>>

\* decode is called on the integer token i<text>e
DecodeInt(text) ==
    /\ bc_pc = "value"
    /\ bc_bytes' = <<105>> \o text \o <<101>>
    /\ bc_result' = decode(<<105>> \o text \o <<101>>)
    /\ bc_pc' = "done_int"
    /\ UNCHANGED <<bc_value, bc_depth_limit, bc_item_limit,
                   io_arg, io_ret, now>>
    /\ UNCHANGED <<rt_vars, st_vars>>

\* decode is called on the encoding followed by more bytes
DecodeTrailing(more) ==
    /\ bc_pc = "bytes"
    /\ bc_bytes' = bc_bytes \o more
    /\ bc_result' = decode_with_limits(bc_bytes \o more, bc_depth_limit,
                                       bc_item_limit)
    /\ bc_pc' = "done_trailing"
    /\ UNCHANGED <<bc_value, bc_depth_limit, bc_item_limit,
                   io_arg, io_ret, now>>
    /\ UNCHANGED <<rt_vars, st_vars>>

\* ------------------------------------------------------------------------
\* Initial states
\* ------------------------------------------------------------------------
RtInitK(ks) ==
    /\ rt_node \in OwnIds
    /\ rt_ksize \in ks
    /\ rt_buckets = RoutingTable_new(rt_ksize, 0)
    /\ rt_status = "ok"
    /\ rt_call = NoCall

RtIdle ==
    /\ rt_node = MinId
    /\ rt_ksize = ScenarioK
    /\ rt_buckets = RoutingTable_new(rt_ksize, 0)
    /\ rt_status = "ok"
    /\ rt_call = NoCall

\* DefaultDhtStorage::new
StInitWith(builds, torrents, peers, items, replies) ==
    /\ build \in builds
    /\ st_settings \in [max_torrents : torrents, max_peers : peers,
                        max_dht_items : items, max_peers_reply : replies]
    /\ st_node_ids = <<>>
    /\ st_map = EmptyMap
    /\ st_immutable = EmptyMap
    /\ st_mutable = EmptyMap
    /\ st_counters = DhtStorageCounter_default
    /\ st_status = "ok"
    /\ put_max_seq = EmptyMap
    /\ put_hist = [imm |-> EmptyMap, mut |-> EmptyMap]
    /\ st_call = NoStCall

StIdle == StInitWith({"release"}, {1}, {1}, {1}, {MaxPeersReply})

\* limits: the (depth_limit, item_limit) pairs of the calls
CodecInitWith(values, limits) ==
    /\ bc_pc = "value"
    /\ bc_value \in values
    /\ bc_bytes = <<>>
    /\ \E l \in limits : bc_depth_limit = l[1] /\ bc_item_limit = l[2]
    /\ bc_result = Err("pending", 0)

BcInitWith(values, limits) ==
    /\ CodecInitWith(values, limits)
    /\ io_arg = NoIo
    /\ io_ret = NoIo

\* args: the objects to save, or the operands to shift
IoInitWith(args) ==
    /\ CodecInitWith({ValueRef_Int(0)}, {<<None, None>>})
    /\ io_arg \in args
    /\ io_ret = NoIo

BcIdle == BcInitWith({ValueRef_Int(0)}, {<<None, None>>})

vars == <<now, rt_vars, st_vars, bc_vars>>

\* ------------------------------------------------------------------------
\* Specifications
\* ------------------------------------------------------------------------
\* the routing table under add_contact and remove_contact
RtInit == now = 0 /\ RtInitK(KSizes) /\ StIdle /\ BcIdle

RtNext ==
    \/ \E node \in Contacts : AddContact(node)
    \/ \E node \in Contacts : RemoveContact(node)
    \/ GoOn

SpecRouting == RtInit /\ [][RtNext]_vars

\* the split scenario: K = 8 and the contacts 0x01.. to 0x09..
ScenarioInit == now = 0 /\ RtInitK({ScenarioK}) /\ StIdle /\ BcIdle

ScenarioNext ==
    \/ \E node \in ScenarioContacts : AddContact(node)
    \/ GoOn

SpecScenario == ScenarioInit /\ [][ScenarioNext]_vars

\* the routing table under the calls of Protocol and of lookups
ProtocolNext ==
    \/ \E node \in Contacts : AddContact(node)
    \/ \E node \in Contacts : RemoveContact(node)
    \/ \E node \in Contacts : WelcomeIfNew(node)
    \/ \E node \in QueryNodes, k \in KChoices, exclude \in Excludes :
           FindNeighbours(node, k, exclude)
    \/ GoOn

SpecProtocol == RtInit /\ [][ProtocolNext]_vars

\* the storage engine under announce_peer
PeersInit ==
    /\ now = 0
    /\ RtIdle
    /\ StInitWith({"release"}, MaxTorrentsChoices, MaxPeersChoices, {1},
                  {MaxPeersReply})
    /\ BcIdle

PeersNext ==
    \/ \E h \in InfoHashes, a \in Announces : AnnouncePeer(h, a)
    \/ StGoOn
    \/ AdvanceClock /\ UNCHANGED <<rt_vars, st_vars, bc_vars>>

SpecPeers == PeersInit /\ [][PeersNext]_vars

\* the storage engine under announce_peer and get_peers
GetPeersInit ==
    /\ now = 0
    /\ RtIdle
    /\ StInitWith({"release"}, {1}, MaxPeersMore, {1}, MaxPeersReplyChoices)
    /\ BcIdle

GetPeersNext ==
    \/ \E a \in MoreAnnounces : AnnouncePeer(InfoHash1, a)
    \/ \E h \in InfoHashes, no_seed \in BOOLEAN, scrape \in BOOLEAN :
           \E requester \in Requesters, peers \in PeersValues :
               GetPeers(h, no_seed, scrape, requester, peers)
    \/ StGoOn

SpecGetPeers == GetPeersInit /\ [][GetPeersNext]_vars

\* the storage engine under put_immutable_item and put_mutable_item
ItemsInit ==
    /\ now = 0
    /\ RtIdle
    /\ StInitWith({"release"}, {1}, {1}, MaxItemsChoices, {MaxPeersReply})
    /\ BcIdle

ItemsNext ==
    \/ UpdateNodeIds(<<LocalId>>)
    \/ \E t \in ItemTargets, a \in Addrs : PutImmutableItem(t, ValueOf(t), a)
    \/ \E t \in ItemTargets, p \in MutablePuts, a \in Addrs :
           PutMutableItem(t, p, a)

SpecItems == ItemsInit /\ [][ItemsNext]_vars

\* items put by announcers whose bloom filter bits collide
AnnouncersInit ==
    /\ now = 0
    /\ RtIdle
    /\ StInitWith({"release"}, {1}, {1}, MaxItemsChoices, {MaxPeersReply})
    /\ BcIdle

AnnouncersNext ==
    \/ UpdateNodeIds(<<LocalId>>)
    \/ \E t \in ItemTargets, a \in CollidingAddrs :
           PutImmutableItem(t, ValueOf(t), a)
    \/ \E t \in ItemTargets, p \in AnnouncerPuts, a \in CollidingAddrs :
           PutMutableItem(t, p, a)

SpecAnnouncers == AnnouncersInit /\ [][AnnouncersNext]_vars

\* the items under puts and gets
GetItemsInit ==
    /\ now = 0
    /\ RtIdle
    /\ StInitWith(Builds, {1}, {1}, MaxItemsChoices, {MaxPeersReply})
    /\ BcIdle

GetItemsNext ==
    \/ UpdateNodeIds(<<LocalId>>)
    \/ \E t \in ItemTargets, b \in ItemBytes, a \in Addrs :
           PutImmutableItem(t, b, a)
    \/ \E t \in ItemTargets, p \in AnnouncerPuts \cup {RawPut} :
           PutMutableItem(t, p, <<10, 0, 0, 1>>)
    \/ \E t \in ItemTargets, item \in ItemKinds : GetImmutableItem(t, item)
    \/ \E t \in ItemTargets, seq \in SeqChoices, force_fill \in BOOLEAN :
           \E item \in ItemKinds : GetMutableItem(t, seq, force_fill, item)
    \/ StGoOn

SpecGetItems == GetItemsInit /\ [][GetItemsNext]_vars

\* the storage engine under announces, puts, the clock and tick
TickInit ==
    /\ now = 0
    /\ RtIdle
    /\ StInitWith({"release"}, {1}, MaxPeersChoices, {1}, {MaxPeersReply})
    /\ BcIdle

TickNext ==
    \/ UpdateNodeIds(<<LocalId>>)
    \/ \E a \in Announces : AnnouncePeer(InfoHash1, a)
    \/ \E t \in ItemTargets :
           PutImmutableItem(t, ValueOf(t), <<10, 0, 0, 1>>)
    \/ AdvanceClock /\ UNCHANGED <<rt_vars, st_vars, bc_vars>>
    \/ Tick
    \/ StGoOn

SpecTick == TickInit /\ [][TickNext]_vars

\* the six operations of the engine on well-formed arguments, under
\* settings whose capacities are 0 or 1
EngineInit ==
    /\ now = 0
    /\ RtIdle
    /\ StInitWith(Builds, CapacityChoices, CapacityChoices, CapacityChoices,
                  {MaxPeersReply})
    /\ BcIdle

EngineNext ==
    \/ UpdateNodeIds(<<LocalId>>)
    \/ \E a \in Announces : AnnouncePeer(InfoHash1, a)
    \/ \E no_seed \in BOOLEAN, scrape \in BOOLEAN, requester \in {Ep4a, Ep6a} :
           GetPeers(InfoHash1, no_seed, scrape, requester,
                    PeersValue("dict", "list"))
    \/ \E t \in ItemTargets :
           PutImmutableItem(t, ValueOf(t), <<10, 0, 0, 1>>)
    \/ \E t \in ItemTargets, p \in AnnouncerPuts :
           PutMutableItem(t, p, <<10, 0, 0, 1>>)
    \/ \E t \in ItemTargets : GetImmutableItem(t, "dict")
    \/ \E t \in ItemTargets, seq \in SeqChoices, force_fill \in BOOLEAN :
           GetMutableItem(t, seq, force_fill, "dict")
    \/ StGoOn

SpecEngine == EngineInit /\ [][EngineNext]_vars

\* eviction from the immutable table, the near target having up to ten
\* announcers
EvictInit ==
    /\ now = 0
    /\ RtIdle
    /\ StInitWith(Builds, {1}, {1}, {2}, {MaxPeersReply})
    /\ BcIdle

EvictNext ==
    \/ \E ids \in NodeIdLists : UpdateNodeIds(ids)
    \/ \E t \in Targets : \E a \in AnnouncersOf(t) :
           PutImmutableItem(t, ValueOf(t), a)

SpecEvict == EvictInit /\ [][EvictNext]_vars

\* the codec: a value is encoded and the bytes are decoded
BencodeInit ==
    /\ now = 0
    /\ RtIdle
    /\ StIdle
    /\ BcInitWith(Values \cup StringLists, Limits)

BencodeNext == Encode \/ Decode

SpecBencode == BencodeInit /\ [][BencodeNext]_vars

\* the encoders: a value is encoded by Value or ValueRef, or by the Value
\* of lib.rs
EncodersInit ==
    /\ now = 0
    /\ RtIdle
    /\ StIdle
    /\ BcInitWith(Values, {<<None, None>>})

EncodersNext == Encode \/ LibEncode

SpecEncoders == EncodersInit /\ [][EncodersNext]_vars

\* the state snapshot: saved, encoded, decoded and read
StateInit == now = 0 /\ RtIdle /\ StIdle /\ IoInitWith(DhtStates)

StateNext == SaveState \/ ReadState

SpecState == StateInit /\ [][StateNext]_vars

\* the settings: saved, and read from the saved dict or from an edited one
SettingsInit == now = 0 /\ RtIdle /\ StIdle /\ IoInitWith(SettingsValues)

SettingsNext ==
    \/ SaveSettings
    \/ \E option \in DroppedOptions : DropKey(option)
    \/ AddUnknownKey
    \/ ReadSettings

SpecSettings == SettingsInit /\ [][SettingsNext]_vars

\* the distance functions of an id
DistInit == now = 0 /\ RtIdle /\ StIdle /\ IoInitWith(DistOperands)

DistNext == AtDist \/ DistTo

SpecDist == DistInit /\ [][DistNext]_vars

\* a NodeHeap under push, push_all and pop
HeapInit ==
    /\ now = 0
    /\ RtIdle
    /\ StIdle
    /\ CodecInitWith({ValueRef_Int(0)}, {<<None, None>>})
    /\ io_arg \in HeapOperands
    /\ io_ret = NodeHeap_new(io_arg.node, io_arg.max_size)

HeapNext ==
    \/ \E node \in HeapNodes : HeapPush(node)
    \/ \E a \in HeapNodes, b \in HeapNodes : HeapPushAll(<<a, b>>)
    \/ HeapPop

SpecHeap == HeapInit /\ [][HeapNext]_vars

\* the routing table under add_contact, the clock and get_refresh_ids
RefreshContacts == {ContactOf(LowId), ContactOf(IdFrom(<<1>>, 0))}

RefreshNext ==
    \/ \E node \in RefreshContacts : AddContact(node)
    \/ \E node \in RefreshContacts : RemoveContact(node)
    \/ \E d \in {STALE_AFTER, STALE_AFTER + 1} : PassTime(d)
    \/ GetRefreshIds
    \/ GoOn

RefreshInit == now = 0 /\ RtInitK({1}) /\ StIdle /\ BcIdle

SpecRefresh == RefreshInit /\ [][RefreshNext]_vars

\* the select-only loop of parse_magnet_uri
SelectOnlyInit == now = 0 /\ RtIdle /\ StIdle /\ IoInitWith(SoValues)

SelectOnlyNext == SoEnter \/ SoIteration \/ SoLeave

SpecSelectOnly == SelectOnlyInit /\ [][SelectOnlyNext]_vars

\* the loop goes on while it can
SpecSelectOnlyFair == SpecSelectOnly /\ WF_vars(SelectOnlyNext)

\* the shifts of a 160-bit value
ShiftInit == now = 0 /\ RtIdle /\ StIdle /\ IoInitWith(ShiftOperands)

ShiftNext == Shl \/ Shr

SpecShift == ShiftInit /\ [][ShiftNext]_vars

\* the decoder on integer tokens
IntsInit == now = 0 /\ RtIdle /\ StIdle /\ BcIdle

IntsNext == \E text \in IntTexts : DecodeInt(text)

SpecInts == IntsInit /\ [][IntsNext]_vars

\* the decoder on a complete value followed by more bytes
TrailingInit ==
    /\ now = 0
    /\ RtIdle
    /\ StIdle
    /\ BcInitWith(Values, {<<None, None>>})

TrailingNext == Encode \/ \E more \in Trailing : DecodeTrailing(more)

SpecTrailing == TrailingInit /\ [][TrailingNext]_vars

\* ------------------------------------------------------------------------
\* Routing table properties
\* ------------------------------------------------------------------------
Held(b) == DOMAIN b.nodes \cup DOMAIN b.extra_nodes

BucketsHolding(id) == {i \in 1..Len(rt_buckets) : id \in Held(rt_buckets[i])}

BucketsCovering(id) ==
    {i \in 1..Len(rt_buckets) : has_in_range(rt_buckets[i], id)}

\* ids probed for coverage: the inputs, 2^80 - 1, and every bucket bound
ProbeIds ==
    ContactIds \cup ScenarioIds \cup {MinId, at_dist(MinId, 80)}
      \cup {rt_buckets[i].lower : i \in 1..Len(rt_buckets)}
      \cup {rt_buckets[i].upper : i \in 1..Len(rt_buckets)}

\* C1: after any sequence of add_contact and remove_contact calls, every
\* contact held by a bucket, in its primary or in its replacement set, has
\* an id with bucket.lower <= id <= bucket.upper.
C1_ContactsWithinBucketRange ==
    rt_status = "ok" =>
        \A i \in 1..Len(rt_buckets) :
            \A id \in Held(rt_buckets[i]) : has_in_range(rt_buckets[i], id)

\* C2: after any sequence of add_contact calls the bucket ranges partition
\* the id space: every id lies in the range [lower, upper] of exactly one
\* bucket (no gap, no overlap).
C2_BucketsPartitionIdSpace ==
    rt_status = "ok" =>
        \A id \in ProbeIds : Cardinality(BucketsCovering(id)) = 1

\* C3: add_contact always returns: its split-and-retry recursion ends after
\* finitely many splits, and in the scenario of the 9 contacts 0x01.. to
\* 0x09.. with K = 8 every contact is then held by the bucket whose range
\* contains its id.
C3_AddContactReturns ==
    /\ rt_status # "overflow"
    /\ \A id \in ScenarioIds :
           \A i \in BucketsHolding(id) : has_in_range(rt_buckets[i], id)

\* ------------------------------------------------------------------------
\* Storage engine properties: torrents and peers
\* ------------------------------------------------------------------------
PeerLists == UNION {{st_map[h].peers4, st_map[h].peers6} : h \in DOMAIN st_map}

StrictlyAscending(list) ==
    \A i \in 1..(Len(list) - 1) : PeerEntry_cmp(list[i], list[i + 1]) < 0

\* C4: after any sequence of announce_peer calls, each torrent's IPv4 and
\* IPv6 peer lists are strictly ascending by (ip, port), so no two entries
\* of a list share (ip, port), also for IPv6 endpoints that differ only in
\* flow info or scope id.
C4_PeerListsStrictlyAscending ==
    \A list \in PeerLists : StrictlyAscending(list)

\* C5: after any sequence of announce_peer calls, the number of stored
\* torrent entries never exceeds settings.max_torrents.
C5_TorrentsWithinMaxTorrents ==
    Cardinality(DOMAIN st_map) <= st_settings.max_torrents

ItemCount(table) == Cardinality(DOMAIN table)

PutKeeps(old, new) ==
    /\ new.value = old.value
    /\ new.sig = old.sig
    /\ new.salt = old.salt
    /\ new.seq = old.seq

PutReplaces(new, p) ==
    /\ new.value = p.buf
    /\ new.sig = p.sig
    /\ new.seq = p.seq

\* C7: put_mutable_item for a stored target with seq at most the stored seq
\* leaves value, signature, salt and seq as they are, and with a larger seq
\* replaces value, signature and seq; the stored seq of an item never
\* decreases while it is stored and is the largest seq put for its target
\* since it was inserted.
C7_SeqMonotonic ==
    /\ [](\A t \in DOMAIN st_mutable : st_mutable[t].seq = put_max_seq[t])
    /\ [][/\ \A t \in ItemTargets, p \in MutablePuts, a \in Addrs :
               (t \in DOMAIN st_mutable /\ PutMutableItem(t, p, a))
                   => IF p.seq <= st_mutable[t].seq
                      THEN PutKeeps(st_mutable[t], st_mutable'[t])
                      ELSE PutReplaces(st_mutable'[t], p)
          /\ \A t \in DOMAIN st_mutable \cap DOMAIN st_mutable' :
               st_mutable'[t].seq >= st_mutable[t].seq]_vars

\* an item inserted with seq 1 and a salt, then replaced by the put of
\* seq 2, and touched by both addresses
C7_ReplacedBySeqTwo ==
    \E t \in DOMAIN st_mutable :
        /\ st_mutable[t].seq = 2
        /\ st_mutable[t].salt = <<115>>
        /\ st_mutable[t].value = <<105, 50, 101>>
        /\ st_mutable[t].num_announcers = 2

\* the score of the eviction rule, a signed integer
SignedScore(table, node_ids, k) ==
    (table[k].num_announcers \div AnnouncersPerPoint)
        - min_distance_exp(k, node_ids)

\* C8: a put for an absent target into a full table removes exactly one
\* stored entry before the insert, an entry of minimum signed score
\* announcers / 5 - min distance_exp; with max_dht_items = 2, an item put by
\* 1 announcer and an item put by 10 announcers, the third put evicts the
\* former and keeps the latter.
C8_EvictsMinimumScore ==
    [][\A t \in Targets : \A a \in AnnouncersOf(t) :
          (/\ PutImmutableItem(t, ValueOf(t), a)
           /\ t \notin DOMAIN st_immutable
           /\ table_full(st_immutable, st_settings))
          => /\ \E k \in DOMAIN st_immutable :
                    /\ DOMAIN st_immutable'
                           = (DOMAIN st_immutable \ {k}) \cup {t}
                    /\ \A j \in DOMAIN st_immutable :
                           SignedScore(st_immutable, st_node_ids, k)
                               <= SignedScore(st_immutable, st_node_ids, j)
             /\ \A ka, kb \in DOMAIN st_immutable :
                    (/\ st_immutable[ka].num_announcers = 1
                     /\ st_immutable[kb].num_announcers = 10)
                    => /\ ka \notin DOMAIN st_immutable'
                       /\ kb \in DOMAIN st_immutable']_vars

\* ------------------------------------------------------------------------
\* Codec properties
\* ------------------------------------------------------------------------
\* C9: decode(encode(v)) succeeds and equals v for every well-formed value
\* v: integers, byte strings (the empty one included), lists and dicts, at
\* top level or nested.
C9_DecodeInvertsEncode ==
    (bc_pc = "done" /\ bc_depth_limit = None /\ bc_item_limit = None)
        => bc_result = Ok(bc_value)

\* C10: decode_with_limits(bytes, Some(limit), None) of d nested lists
\* succeeds iff d <= limit and fails with DepthLimit iff d > limit.
C10_DepthWithinLimitIffDecodes ==
    \A d \in 1..MaxNest :
        (/\ bc_pc = "done"
         /\ bc_value = NestedLists(d)
         /\ bc_depth_limit.some
         /\ bc_item_limit = None)
        => /\ (d <= bc_depth_limit.v) <=> (bc_result.err = "none")
           /\ (d > bc_depth_limit.v) <=> (bc_result = Err("DepthLimit", 0))

\* every integer, string, list and dict of a value counted once
RECURSIVE CountItems(_)
RECURSIVE CountAll(_)
CountAll(items) ==
    IF items = <<>> THEN 0 ELSE CountItems(Head(items)) + CountAll(Tail(items))

CountItems(v) ==
    IF v.kind = "List" THEN 1 + CountAll(v.items)
    ELSE IF v.kind = "Dict" THEN 1 + Len(v.keys) + CountAll(v.items)
    ELSE 1

ItemLimitCall ==
    bc_pc = "done" /\ bc_depth_limit = None /\ bc_item_limit.some

\* C11: decode_with_limits(bytes, None, Some(n)) fails with ItemLimit iff
\* the number of items of the input exceeds n; a list of m empty strings
\* fails with ItemLimit at n = m - 1 and decodes at n = m (m = 511 in the
\* repository's test).
C11_ItemLimitIffMoreThanLimit ==
    ItemLimitCall
        => /\ (bc_result = Err("ItemLimit", 0))
                  <=> (CountItems(bc_value) > bc_item_limit.v)
           /\ \A m \in 1..MaxStrings :
                  bc_value = ManyStrings(m)
                      => /\ bc_item_limit.v = m - 1
                                => bc_result = Err("ItemLimit", 0)
                         /\ bc_item_limit.v = m => bc_result = Ok(bc_value)

\* C11 as amended: the call fails with ItemLimit iff the number of items
\* exceeds n + 1, the item that brings the count to n + 1 being let through;
\* a list of m empty strings (m + 1 items) fails at n = m - 1 and decodes at
\* n = m.
C11_ItemLimitIffMoreThanLimitPlusOne ==
    ItemLimitCall
        => /\ (bc_result = Err("ItemLimit", 0))
                  <=> (CountItems(bc_value) > bc_item_limit.v + 1)
           /\ \A m \in 1..MaxStrings :
                  bc_value = ManyStrings(m)
                      => /\ bc_item_limit.v = m - 1
                                => bc_result = Err("ItemLimit", 0)
                         /\ bc_item_limit.v = m => bc_result = Ok(bc_value)

\* a list of three empty strings, four items, decoded under item limit 3
C11_FourItemsUnderLimitThree ==
    /\ ItemLimitCall
    /\ bc_value = ManyStrings(3)
    /\ bc_item_limit = Some(3)
    /\ bc_result = Ok(bc_value)

\* ------------------------------------------------------------------------
\* Lookup and protocol properties
\* ------------------------------------------------------------------------
\* a XOR b as a 160-bit unsigned integer: the big-endian bytes of the XOR
XorDistance(a, b) == BitXor(a, b)

\* C12: find_neighbours(target, k, exclude) returns at most k contacts (k
\* defaulting to the table's K), in non-decreasing XOR distance to the
\* target, none with the target's id and none sharing a home with exclude.
C12_NeighboursOrderedByXor ==
    (rt_call.called /\ rt_call.op = "find_neighbours" /\ rt_status = "ok")
        => LET nodes == rt_call.nodes
               target == rt_call.node.id
               k == IF rt_call.k.some THEN rt_call.k.v ELSE rt_ksize
           IN  /\ Len(nodes) <= k
               /\ \A i \in 1..Len(nodes) :
                      /\ nodes[i].id # target
                      /\ rt_call.exclude.some
                            => ~ same_home_as(nodes[i], rt_call.exclude.v)
               /\ \A i \in 1..(Len(nodes) - 1) :
                      IdLeq(XorDistance(nodes[i].id, target),
                            XorDistance(nodes[i + 1].id, target))

\* C13: welcome_if_new(node) ends with add_contact(node): when it returns,
\* node is a contact of the routing table, also when no bucket held it
\* before the call.
C13_WelcomedNodeIsContact ==
    (rt_call.called /\ rt_call.op = "welcome_if_new" /\ rt_status = "ok")
        => BucketsHolding(rt_call.node.id) # {}

\* the get_peers call that has returned a bool
GetPeersReturned ==
    st_call.called /\ st_call.op = "get_peers" /\ st_call.reply.status = "ok"

\* the peer list of the requester's family in the entry of the call
CallPeers ==
    IF st_call.info_hash \notin DOMAIN st_map THEN <<>>
    ELSE IF ~ st_call.endpoint.v6 THEN st_map[st_call.info_hash].peers4
    ELSE st_map[st_call.info_hash].peers6

\* the positions of the list that hold the given address
Recorded(list, addr) == {i \in 1..Len(list) : list[i].addr = addr}

\* the positions of the list that hold the ip and the port of the address
SameIpPort(list, addr) ==
    {i \in 1..Len(list) : /\ list[i].addr.ip = addr.ip
                          /\ list[i].addr.port = addr.port}

\* C14: for an infohash that has an entry, get_peers returns true iff the
\* requester's endpoint is not recorded in the peer list of its family and
\* that list holds fewer than max_peers entries; for an infohash that has
\* no entry it returns (number of torrents >= max_torrents)
C14_TrueIffUnknownAndBelowMaxPeers ==
    GetPeersReturned =>
        IF st_call.info_hash \in DOMAIN st_map
        THEN st_call.reply.ret =
                 (/\ Recorded(CallPeers, st_call.endpoint) = {}
                  /\ Len(CallPeers) < st_settings.max_peers)
        ELSE st_call.reply.ret =
                 (Cardinality(DOMAIN st_map) >= st_settings.max_torrents)

\* C14: for an infohash that has an entry, get_peers returns true iff the
\* peer list of the requester's family holds at least max_peers entries and
\* the entry with the requester's ip and port that the binary search lands
\* on, if there is one, holds an address other than the requester's; for
\* an infohash that has no entry it returns (number of torrents >=
\* max_torrents)
C14_TrueIffUnknownAndAtMaxPeers ==
    GetPeersReturned =>
        IF st_call.info_hash \in DOMAIN st_map
        THEN LET same == SameIpPort(CallPeers, st_call.endpoint)
                 known == Recorded(CallPeers, st_call.endpoint)
             IN  /\ Len(CallPeers) < st_settings.max_peers
                        => ~ st_call.reply.ret
                 /\ (Len(CallPeers) >= st_settings.max_peers /\ same = known)
                        => st_call.reply.ret = (known = {})
                 /\ (Len(CallPeers) >= st_settings.max_peers /\ known = {})
                        => st_call.reply.ret
        ELSE st_call.reply.ret =
                 (Cardinality(DOMAIN st_map) >= st_settings.max_torrents)

\* get_peers has returned true for a requester that a full list does not
\* hold, and false for one that a full list holds
C14_FullListUnknownRequester ==
    /\ GetPeersReturned
    /\ st_call.info_hash \in DOMAIN st_map
    /\ Len(CallPeers) >= st_settings.max_peers
    /\ Len(CallPeers) = 2
    /\ Recorded(CallPeers, st_call.endpoint) = {}
    /\ st_call.reply.ret

\* the get_peers call that has taken the non-scrape path with a "values"
\* list to append to
PickCall ==
    /\ st_call.called /\ st_call.op = "get_peers"
    /\ st_call.info_hash \in DOMAIN st_map
    /\ ~ st_call.scrape
    /\ st_call.peers = PeersValue("dict", "list")

\* the positions of the peers that may be put in the reply
Eligible ==
    {i \in 1..Len(CallPeers) : ~ (st_call.no_seed /\ CallPeers[i].seed)}

\* max_peers_reply, a quarter of it for an IPv6 requester
Limit ==
    IF st_call.endpoint.v6 THEN st_settings.max_peers_reply \div 4
    ELSE st_settings.max_peers_reply

Min(a, b) == IF a < b THEN a ELSE b

\* C15: on the non-scrape path of get_peers, for every outcome of the
\* random draws, exactly min(limit, e) entries are appended to "values",
\* they are the packed addresses of pairwise distinct eligible peers, the
\* assertion candidates >= to_pick holds and the iterator is not advanced
\* past its end (the call does not panic)
C15_PicksMinOfLimitAndEligible ==
    PickCall =>
        LET r == st_call.reply
        IN  /\ r.status = "ok"
            /\ Len(r.values) = Min(Limit, Cardinality(Eligible))
            /\ Len(r.picked) = Len(r.values)
            /\ \A j \in 1..Len(r.picked) :
                   /\ r.picked[j] \in Eligible
                   /\ r.values[j] = write_socket_addr(CallPeers[r.picked[j]].addr)
            /\ \A j, k \in 1..Len(r.picked) :
                   j # k => CallPeers[r.picked[j]].addr # CallPeers[r.picked[k]].addr

\* the number of peer entries stored in all torrents
RECURSIVE PeerCount(_, _)
PeerCount(map, hashes) ==
    IF hashes = {} THEN 0
    ELSE LET h == CHOOSE x \in hashes : TRUE
         IN  Len(map[h].peers4) + Len(map[h].peers6)
                 + PeerCount(map, hashes \ {h})

\* C16: after any sequence of storage operations, counters.torrents is the
\* number of stored torrent entries, counters.peers the number of stored
\* peer entries, counters.immutable_data the number of stored immutable
\* items and counters.mutable_data the number of stored mutable items (an
\* eviction lowers the counter by one and the insert raises it by one)
C16_CountersMatchStore ==
    /\ st_counters.torrents = Cardinality(DOMAIN st_map)
    /\ st_counters.peers = PeerCount(st_map, DOMAIN st_map)
    /\ st_counters.immutable_data = ItemCount(st_immutable)
    /\ st_counters.mutable_data = ItemCount(st_mutable)

\* add_contact has returned to its caller
AddContactReturned ==
    rt_call.called /\ rt_call.op = "add_contact" /\ rt_status = "ok"

\* C17: each contact id is held by at most one bucket of the table, and
\* after add_contact(n) returns n is held by the one bucket whose range
\* contains n.id (adding n again updates it in place and never makes a
\* second copy in another bucket)
C17_ContactInTheOneBucketOfItsRange ==
    /\ rt_status = "ok" =>
           \A id \in ContactIds \cup ScenarioIds :
               Cardinality(BucketsHolding(id)) <= 1
    /\ AddContactReturned =>
           /\ Cardinality(BucketsHolding(rt_call.node.id)) = 1
           /\ BucketsCovering(rt_call.node.id) = BucketsHolding(rt_call.node.id)

\* C18: in every reachable state the primary set of every bucket holds at
\* most K contacts
C18_PrimarySetWithinK ==
    \A i \in 1..Len(rt_buckets) :
        Cardinality(DOMAIN rt_buckets[i].nodes) <= rt_ksize

\* after a split, a bucket holds K = 2 primary contacts and a replacement
C18_FullBucketWithReplacement ==
    /\ rt_ksize = 2
    /\ Len(rt_buckets) > 1
    /\ \E i \in 1..Len(rt_buckets) :
           /\ Cardinality(DOMAIN rt_buckets[i].nodes) = rt_ksize
           /\ DOMAIN rt_buckets[i].extra_nodes # {}

\* the primary sets of the buckets, in table order
PrimarySets(buckets) ==
    [i \in 1..Len(buckets) |-> DOMAIN buckets[i].nodes]

\* add_contact(node) finds node's bucket holding K primary contacts, node
\* not among them
FindsFullBucket(node) ==
    /\ ~ lookup_panics(rt_buckets, node.id)
    /\ LET b == rt_buckets[bucket_index_of(rt_buckets, node.id)]
       IN  /\ Cardinality(DOMAIN b.nodes) = rt_ksize
           /\ node.id \notin DOMAIN b.nodes

\* C19: when add_contact(n) finds n's bucket holding K primary contacts
\* and n is not among them, then if the bucket's range contains the local
\* id or the bucket's depth is not a multiple of 5 the bucket is split and
\* the add retried; otherwise no bucket is split, the number of buckets
\* and every primary set stay as they were and n is in the replacement set
\* of that bucket
C19_FullBucketSplitOrReplacement ==
    [][\A node \in Contacts \cup ScenarioContacts :
          (AddContact(node) /\ FindsFullBucket(node)) =>
              LET index == bucket_index_of(rt_buckets, node.id)
                  b == rt_buckets[index]
              IN  IF has_in_range(b, rt_node) \/ depth(b) % 5 # 0
                  THEN /\ rt_status' # "panic"
                       /\ rt_call'.splits >= 1
                       /\ Len(rt_buckets') = Len(rt_buckets) + rt_call'.splits
                  ELSE /\ rt_status' = "ok"
                       /\ rt_call'.splits = 0
                       /\ Len(rt_buckets') = Len(rt_buckets)
                       /\ PrimarySets(rt_buckets') = PrimarySets(rt_buckets)
                       /\ node.id \in DOMAIN rt_buckets'[index].extra_nodes
      ]_vars

\* add_contact has returned without a split, the contact being in the
\* replacement set of a full bucket that does not cover the local id
C19_ReplacementWithoutSplit ==
    /\ AddContactReturned
    /\ rt_call.splits = 0
    /\ \E i \in 1..Len(rt_buckets) :
           /\ rt_call.node.id \in DOMAIN rt_buckets[i].extra_nodes
           /\ rt_call.node.id \notin DOMAIN rt_buckets[i].nodes
           /\ Cardinality(DOMAIN rt_buckets[i].nodes) = rt_ksize
           /\ ~ has_in_range(rt_buckets[i], rt_node)

\* add_contact has returned after it split a full bucket
C19_SplitAndRetried ==
    AddContactReturned /\ rt_call.splits >= 1

\* the peer list of the endpoint's family in the entry of the info hash,
\* empty when the torrent has no entry
FamilyList(map, info_hash, endpoint) ==
    IF info_hash \notin DOMAIN map THEN <<>>
    ELSE IF ~ endpoint.v6 THEN map[info_hash].peers4
    ELSE map[info_hash].peers6

\* C20: a torrent's peer list for one address family never holds more than
\* max_peers entries; announce_peer with an endpoint that is not in the
\* list inserts it iff the list holds fewer than max_peers entries and
\* otherwise leaves the list and counters.peers as they were; an endpoint
\* that is in the list is updated in place, also when the list is full
C20_PeerListWithinMaxPeers ==
    /\ [](\A list \in PeerLists : Len(list) <= st_settings.max_peers)
    /\ [][\A h \in InfoHashes, a \in MoreAnnounces :
              (AnnouncePeer(h, a) /\ h \in DOMAIN st_map') =>
                  LET old == FamilyList(st_map, h, a.endpoint)
                      new == FamilyList(st_map', h, a.endpoint)
                  IN  IF Recorded(old, a.endpoint) = {}
                      THEN IF Len(old) < st_settings.max_peers
                           THEN /\ Len(new) = Len(old) + 1
                                /\ Recorded(new, a.endpoint) # {}
                                /\ st_counters'.peers = st_counters.peers + 1
                           ELSE /\ new = old
                                /\ st_counters'.peers = st_counters.peers
                      ELSE /\ Len(new) = Len(old)
                           /\ st_counters'.peers = st_counters.peers
                           /\ \A i \in Recorded(new, a.endpoint) :
                                  new[i] = PeerEntry_new(a.endpoint, now, a.seed)
      ]_vars

\* ------------------------------------------------------------------------
\* Storage engine properties: items
\* ------------------------------------------------------------------------
\* the address is found in the announcer filter of the item
Found(item, addr) == has_bits(from_address(addr), item.ips, BloomSize)

\* a put from addr for a stored item leaves num_announcers as it is when
\* the address is found in the filter and adds one when it is not
CountsNewAnnouncer(old, new, addr) ==
    new.num_announcers =
        old.num_announcers + (IF Found(old, addr) THEN 0 ELSE 1)

\* C21: a put for a stored immutable or mutable item from an address found
\* in the item's announcer filter leaves num_announcers unchanged, and one
\* from an address not found there adds exactly one; num_announcers is at
\* least 1, never decreases while the item is stored and never exceeds the
\* number of distinct addresses that put the item
C21_AnnouncersCountedOnce ==
    /\ [](\A t \in DOMAIN st_immutable :
             /\ st_immutable[t].num_announcers >= 1
             /\ st_immutable[t].num_announcers
                    <= Cardinality(put_hist.imm[t].addrs))
    /\ [](\A t \in DOMAIN st_mutable :
             /\ st_mutable[t].num_announcers >= 1
             /\ st_mutable[t].num_announcers
                    <= Cardinality(put_hist.mut[t].addrs))
    /\ [][\A t \in ItemTargets, a \in CollidingAddrs :
              /\ (t \in DOMAIN st_immutable
                     /\ PutImmutableItem(t, ValueOf(t), a))
                    => CountsNewAnnouncer(st_immutable[t], st_immutable'[t], a)
              /\ \A p \in AnnouncerPuts :
                     (t \in DOMAIN st_mutable /\ PutMutableItem(t, p, a))
                        => CountsNewAnnouncer(st_mutable[t], st_mutable'[t], a)
      ]_vars
    /\ [][/\ \A t \in DOMAIN st_immutable \cap DOMAIN st_immutable' :
                st_immutable'[t].num_announcers
                    >= st_immutable[t].num_announcers
          /\ \A t \in DOMAIN st_mutable \cap DOMAIN st_mutable' :
                st_mutable'[t].num_announcers >= st_mutable[t].num_announcers
      ]_vars

\* three addresses have put an item and it counts two announcers, the third
\* address having been found in the filter
C21_ThirdAnnouncerFound ==
    \E t \in DOMAIN st_immutable :
        /\ put_hist.imm[t].addrs = CollidingAddrs
        /\ st_immutable[t].num_announcers = 2

\* get_immutable_item has been called with a dict
GotImmutable ==
    /\ st_call.called /\ st_call.op = "get_immutable_item"
    /\ st_call.item = "dict"

\* C22: from put_immutable_item(t, b, a) until t is evicted by a put of an
\* absent target into a full table, get_immutable_item(t, out) returns true
\* and sets out["v"] to the decoding of the bytes stored when t was
\* inserted (b being bencode and out a dict); a put for a stored target
\* evicts nothing and changes neither the stored bytes nor the number of
\* stored items; get_immutable_item for an absent target returns false and
\* leaves out as it was
C22_GetReturnsFirstPut ==
    /\ [](\A t \in DOMAIN st_immutable :
             st_immutable[t].value = put_hist.imm[t].first)
    /\ [](GotImmutable =>
             IF st_call.target \in DOMAIN st_immutable
             THEN LET d == Value_decode(put_hist.imm[st_call.target].first)
                  IN  d.err = "none" =>
                          /\ st_call.got.status = "ok"
                          /\ st_call.got.ret
                          /\ st_call.got.has_v
                          /\ st_call.got.v = d.value
             ELSE /\ st_call.got.status = "ok"
                  /\ ~ st_call.got.ret
                  /\ ~ st_call.got.has_v)
    /\ [][\A t \in ItemTargets, b \in ItemBytes, a \in Addrs :
              (t \in DOMAIN st_immutable /\ PutImmutableItem(t, b, a)) =>
                  DOMAIN st_immutable' = DOMAIN st_immutable
      ]_vars
    /\ [][\A t \in DOMAIN st_immutable \ DOMAIN st_immutable' :
              /\ DOMAIN st_immutable' \ DOMAIN st_immutable # {}
              /\ ItemCount(st_immutable) >= st_settings.max_dht_items
      ]_vars

\* get_immutable_item has returned the decoding of the first bytes of an
\* item that two addresses have put
C22_GotItemPutTwice ==
    /\ GotImmutable
    /\ st_call.target \in DOMAIN st_immutable
    /\ Cardinality(put_hist.imm[st_call.target].addrs) = 2
    /\ st_call.got.has_v
    /\ st_call.got.v = ValueRef_Dict(<<<<97>>>>, <<ValueRef_Int(2)>>)

\* DhtSettings::default: item_lifetime, in seconds
item_lifetime == DhtSettings_default.item_lifetime

\* storage.rs: a peer entry lives 30 minutes, in seconds
TIME_DURATION == 1800

ExpiredItem(item) == item.last_seen + item_lifetime < now

ExpiredPeer(p) == p.added + TIME_DURATION < now

Peers(v) == {v.peers4[i] : i \in 1..Len(v.peers4)} \cup
            {v.peers6[i] : i \in 1..Len(v.peers6)}

\* C23: after tick() returns, no immutable and no mutable item with
\* last_seen + item_lifetime < now remains stored, no peer entry added more
\* than 30 minutes ago remains in any torrent and no torrent entry without
\* peers remains; items and peers that are not expired are kept, and tick
\* returns normally
C23_TickPrunesExpired ==
    /\ []((st_call.called /\ st_call.op = "tick") =>
             /\ st_status = "ok"
             /\ \A t \in DOMAIN st_immutable : ~ ExpiredItem(st_immutable[t])
             /\ \A t \in DOMAIN st_mutable : ~ ExpiredItem(st_mutable[t])
             /\ \A h \in DOMAIN st_map :
                    /\ Peers(st_map[h]) # {}
                    /\ \A p \in Peers(st_map[h]) : ~ ExpiredPeer(p))
    /\ [][Tick =>
             /\ \A t \in DOMAIN st_immutable :
                    ~ ExpiredItem(st_immutable[t]) =>
                        /\ t \in DOMAIN st_immutable'
                        /\ st_immutable'[t] = st_immutable[t]
             /\ \A t \in DOMAIN st_mutable :
                    ~ ExpiredItem(st_mutable[t]) =>
                        /\ t \in DOMAIN st_mutable'
                        /\ st_mutable'[t] = st_mutable[t]
             /\ \A h \in DOMAIN st_map :
                    \A p \in Peers(st_map[h]) :
                        ~ ExpiredPeer(p) =>
                            /\ h \in DOMAIN st_map'
                            /\ p \in Peers(st_map'[h])
      ]_vars

\* C24: once update_node_ids has set a local id, for every settings value
\* (max_torrents, max_peers or max_dht_items equal to 0 included) and every
\* reachable state, announce_peer, get_peers, put_immutable_item,
\* put_mutable_item, get_immutable_item and get_mutable_item return
\* normally; an announce at full capacity is dropped and a put into a full
\* table evicts and then inserts
C24_EngineNeverPanics ==
    /\ [](st_node_ids # <<>> => st_status # "panic")
    /\ [][\A a \in Announces :
              (/\ AnnouncePeer(InfoHash1, a)
               /\ InfoHash1 \notin DOMAIN st_map
               /\ at_capacity(st_map, st_settings)) => st_map' = st_map
      ]_vars
    /\ [][\A t \in ItemTargets :
              (/\ PutImmutableItem(t, ValueOf(t), <<10, 0, 0, 1>>)
               /\ t \notin DOMAIN st_immutable
               /\ ItemCount(st_immutable) >= st_settings.max_dht_items) =>
                  /\ t \in DOMAIN st_immutable'
                  /\ ItemCount(st_immutable') = ItemCount(st_immutable)
      ]_vars

\* ------------------------------------------------------------------------
\* Codec properties: encoders and tokens
\* ------------------------------------------------------------------------
\* the index of the key that has i - 1 smaller keys
Rank(keys, i) ==
    CHOOSE j \in 1..Len(keys) :
        Cardinality({l \in 1..Len(keys) : StrLess(keys[l], keys[j])}) = i - 1

\* the encoding whose dict entries are in ascending order of their keys
RECURSIVE Ascending(_)
RECURSIVE AscendingItems(_, _)
RECURSIVE AscendingEntries(_, _, _)
AscendingItems(items, i) ==
    IF i > Len(items) THEN <<>>
    ELSE Ascending(items[i]) \o AscendingItems(items, i + 1)

AscendingEntries(keys, items, i) ==
    IF i > Len(keys) THEN <<>>
    ELSE LET j == Rank(keys, i)
         IN  Display(Len(keys[j])) \o <<58>> \o keys[j]
                 \o Ascending(items[j]) \o AscendingEntries(keys, items, i + 1)

Ascending(v) ==
    IF v.kind = "Int" THEN <<105>> \o Display(v.n) \o <<101>>
    ELSE IF v.kind = "String" THEN Display(Len(v.bytes)) \o <<58>> \o v.bytes
    ELSE IF v.kind = "List" THEN <<108>> \o AscendingItems(v.items, 1) \o <<101>>
    ELSE <<100>> \o AscendingEntries(v.keys, v.items, 1) \o <<101>>

\* C25: encode writes the entries of every dict, at every nesting level, in
\* ascending byte order of their keys; this holds for each encoder of the
\* crate: Value, ValueRef and the Value of lib.rs
C25_DictKeysAscending ==
    bc_pc \in {"bytes", "lib_bytes"} => bc_bytes = Ascending(bc_value)

\* C26: for every input that consists of one complete top-level value
\* followed by at least one more byte, decode fails with the error EOF,
\* whatever the trailing bytes are (a digit, a letter or a stray 'e')
C26_TrailingBytesGiveEOF ==
    bc_pc = "done_trailing" => bc_result = Err("EOF", 0)

\* the text of the decoded integer token
IntText == SubSeq(bc_bytes, 2, Len(bc_bytes) - 1)

Magnitude(text) == IF Head(text) = 45 THEN Tail(text) ELSE text

\* -?[0-9]+ without surplus leading zeros
WellFormedInt(text) ==
    /\ text # <<>>
    /\ Magnitude(text) # <<>>
    /\ \A i \in 1..Len(Magnitude(text)) : IsDigit(Magnitude(text)[i])
    /\ Len(Magnitude(text)) = 1 \/ Head(Magnitude(text)) # 48

IntOf(text) ==
    IF Head(text) = 45 THEN 0 - DigitsValue(Tail(text), 0)
    ELSE DigitsValue(text, 0)

\* C27: decode accepts an integer token i<text>e iff text matches -?[0-9]+
\* with no leading '+' and no surplus leading zeros and its value fits in
\* a signed 64-bit integer, and then yields that value; every other text
\* makes decode fail with ParseInt (i9223372036854775808e, i+1e and i007e
\* each fail with ParseInt)
C27_IntTokenGrammar ==
    bc_pc = "done_int" =>
        IF WellFormedInt(IntText) /\ IntText \notin OutOfRangeTexts
        THEN bc_result = Ok(ValueRef_Int(IntOf(IntText)))
        ELSE bc_result = Err("ParseInt", 0)

\* ------------------------------------------------------------------------
\* Snapshot properties
\* ------------------------------------------------------------------------
\* the state has been saved, encoded, decoded and read
StateRead == bc_pc = "read"

\* C28: DhtState round-trips exactly across save/load: for every state s
\* whose node ids are 20 bytes long, DhtState::read applied to the decoding
\* of the encoding of s.save() yields a state with the same (address, id)
\* pairs in nids and the same endpoints in nodes and nodes6, in the same
\* order, the states whose three vectors are empty included
C28_StateRoundTripsExactly ==
    StateRead => (io_ret.op = "read" /\ io_ret.state = io_arg)

\* the endpoint that SocketAddr::new makes of the ip and the port
IpAndPort(e) == [e EXCEPT !.flowinfo = 0, !.scope_id = 0]

IpsAndPorts(nodes) == [i \in 1..Len(nodes) |-> IpAndPort(nodes[i])]

\* C28, amended: the state read has the same (address, id) pairs and, in
\* nodes and nodes6, the same ips and ports in the same order; the flow info
\* and the scope id of an IPv6 endpoint are not saved and are read as 0
C28_StateRoundTripsIpsAndPorts ==
    StateRead =>
        /\ io_ret.op = "read"
        /\ io_ret.state.nids = io_arg.nids
        /\ io_ret.state.nodes = IpsAndPorts(io_arg.nodes)
        /\ io_ret.state.nodes6 = IpsAndPorts(io_arg.nodes6)

\* a state of two node ids and of endpoints of both families has been read
C28_FullStateRead ==
    /\ StateRead
    /\ Len(io_arg.nids) = 2 /\ io_arg.nids[1] # io_arg.nids[2]
    /\ io_arg.nodes = <<Ep4a, Ep6a>>
    /\ io_arg.nodes6 = <<Ep6b, Ep6a>>
    /\ io_ret.op = "read"
    /\ io_ret.state.nodes6 = <<Ep6a, Ep6a>>

\* every option of DhtSettings
Options == DOMAIN DhtSettings_default

\* the saved options
SavedOptions ==
    {IntOptions[i] : i \in 1..Len(IntOptions)} \cup
    {BoolOptions[i] : i \in 1..Len(BoolOptions)}

\* C29: DhtSettings round-trips through save/load: for every settings
\* value s, DhtSettings::read(s.save()) equals s in every one of its
\* options (upload_rate_limit, sample_infohashes_interval and
\* max_infohashes_sample_count included); reading a dict leaves every option
\* whose key is absent at its default and ignores unknown keys
C29_SettingsRoundTrip ==
    /\ bc_pc = "read" =>
           /\ ~ io_ret.settings.panicked
           /\ \A o \in Options : io_ret.settings[o] = io_arg[o]
    /\ bc_pc = "read_edited" =>
           /\ ~ io_ret.settings.panicked
           /\ \A o \in SavedOptions :
                  io_ret.settings[o] =
                      IF dict_get(bc_value, stringify[o]).some THEN io_arg[o]
                      ELSE DhtSettings_default[o]

\* ------------------------------------------------------------------------
\* Shift properties
\* ------------------------------------------------------------------------
\* bit i of a 160-bit value, bit 0 the most significant
BitOf(x, i) == (x[(i \div 8) + 1] \div 2 ^ (7 - (i % 8))) % 2

\* y is (x * 2^n) mod 2^160
IsShl(y, x, n) ==
    \A i \in 0..(SIZE * 8 - 1) :
        BitOf(y, i) = IF i + n < SIZE * 8 THEN BitOf(x, i + n) ELSE 0

\* y is floor(x / 2^n)
IsShr(y, x, n) ==
    \A i \in 0..(SIZE * 8 - 1) :
        BitOf(y, i) = IF i >= n THEN BitOf(x, i - n) ELSE 0

\* C30: for every 160-bit value x and every shift count n >= 0, x <<= n
\* yields (x * 2^n) mod 2^160 and x >>= n yields floor(x / 2^n); for
\* n >= 160 the result is zero, for n = 0 x is unchanged, and no shift
\* count causes undefined behaviour or a panic
C30_ShiftsAreArithmetic ==
    io_ret # NoIo =>
        /\ io_ret.status = "ok"
        /\ io_ret.op = "shl" => IsShl(io_ret.data, io_arg.x, io_arg.n)
        /\ io_ret.op = "shr" => IsShr(io_ret.data, io_arg.x, io_arg.n)
        /\ io_arg.n >= SIZE * 8 => io_ret.data = MinId
        /\ io_arg.n = 0 => io_ret.data = io_arg.x

\* the number of leading zero bits of x: the bits before the first set bit
LeadingZeroBits(x) ==
    Cardinality({i \in 0..(SIZE * 8 - 1) : \A j \in 0..i : BitOf(x, j) = 0})

\* C31: for every id a and every n with 0 <= n < 160, a.at_dist(n) returns
\* normally an id b with a.dist_to(b) = n, where dist_to is 160 minus the
\* number of leading zero bits of a XOR b; dist_to is symmetric and
\* a.dist_to(a) = 0
C31_AtDistRoundTrips ==
    /\ io_ret # NoIo /\ io_ret.op = "at_dist" =>
           /\ io_ret.status = "ok"
           /\ dist_to(io_arg.a, io_ret.data) = io_arg.n
    /\ io_ret # NoIo /\ io_ret.op = "dist_to" =>
           /\ io_ret.data
                  = SIZE * 8 - LeadingZeroBits(BitXor(io_arg.a, io_arg.b))
           /\ io_ret.data = dist_to(io_arg.b, io_arg.a)
           /\ io_arg.a = io_arg.b => io_ret.data = 0

\* the same without the at_dist at distance 0
C31_PositiveDistances ==
    /\ io_ret # NoIo /\ io_ret.op = "at_dist" /\ io_arg.n > 0 =>
           /\ io_ret.status = "ok"
           /\ dist_to(io_arg.a, io_ret.data) = io_arg.n
    /\ io_ret # NoIo /\ io_ret.op = "dist_to" =>
           /\ io_ret.data
                  = SIZE * 8 - LeadingZeroBits(BitXor(io_arg.a, io_arg.b))
           /\ io_ret.data = dist_to(io_arg.b, io_arg.a)
           /\ io_arg.a = io_arg.b => io_ret.data = 0

\* the distance of a node from the reference node of the heap
HeapDist(n) == dist_to(io_arg.node.id, n.id)

\* C32: after any sequence of push and push_all calls on a NodeHeap with
\* bound max_size, closest() and get_ids() return min(max_size, number of
\* distinct nodes pushed) nodes, those of the smallest distance to the
\* reference node among all nodes pushed, in non-decreasing order of
\* distance, and len() equals that count; pop() removes and returns a node
\* of minimum distance among those held
C32_HeapKeepsClosest ==
    LET items == closest(io_ret.heap, io_arg.node, io_arg.max_size, <<>>)
        kept == {items[i] : i \in DOMAIN items}
        count == IF io_arg.max_size < Cardinality(io_ret.pushed)
                 THEN io_arg.max_size ELSE Cardinality(io_ret.pushed)
    IN  /\ ~ io_ret.popped =>
               /\ Len(items) = count
               /\ Cardinality(kept) = count
               /\ kept \subseteq io_ret.pushed
               /\ \A n \in kept, m \in io_ret.pushed \ kept :
                      HeapDist(n) <= HeapDist(m)
               /\ \A i \in 1..(Len(items) - 1) :
                      HeapDist(items[i]) <= HeapDist(items[i + 1])
               /\ get_ids(io_ret.heap, io_arg.node, io_arg.max_size)
                      = [i \in DOMAIN items |-> items[i].id]
               /\ NodeHeap_len(io_ret.heap, io_arg.max_size) = count
        /\ io_ret.op = "pop" /\ io_ret.before # {} =>
               /\ io_ret.ret.some
               /\ io_ret.ret.v \in io_ret.before
               /\ \A m \in io_ret.before : HeapDist(io_ret.ret.v) <= HeapDist(m)
               /\ io_ret.heap = io_ret.before \ {io_ret.ret.v}

\* more nodes were pushed than the heap returns, two of them at one
\* distance, and a pop has returned a node
C32_HeapOverfullAndPopped ==
    /\ io_ret.op = "pop"
    /\ io_ret.ret.some
    /\ Cardinality(io_ret.before) > io_arg.max_size
    /\ \E n \in io_ret.before, m \in io_ret.before :
           n # m /\ HeapDist(n) = HeapDist(m)

\* pushes only: more nodes pushed than max_size, two at one distance
C32_HeapOverfull ==
    /\ ~ io_ret.popped
    /\ io_arg.max_size > 0
    /\ Cardinality(io_ret.pushed) > io_arg.max_size
    /\ \E n \in io_ret.pushed, m \in io_ret.pushed :
           n # m /\ HeapDist(n) = HeapDist(m)

\* the buckets of the table that were last updated more than an hour before t
StaleAt(buckets, t) ==
    {i \in 1..Len(buckets) : buckets[i].last_updated + STALE_AFTER < t}

\* ids holds one id per stale bucket, in the order of the buckets, each
\* within the range of its bucket
OnePerStaleBucket(ids, buckets, t) ==
    /\ Len(ids) = Cardinality(StaleAt(buckets, t))
    /\ \A i \in StaleAt(buckets, t) :
           LET k == Cardinality({j \in StaleAt(buckets, t) : j <= i})
           IN  /\ IdLeq(buckets[i].lower, ids[k])
               /\ IdLeq(ids[k], buckets[i].upper)

\* C33: get_refresh_ids returns exactly one id per bucket whose last update
\* is more than one hour old and none for any other bucket; every returned
\* id lies in the range of its bucket (lower <= id <= upper), for every
\* outcome of the random draw; and the call returns normally in every
\* reachable routing table state
C33_RefreshIdsPerStaleBucket ==
    io_ret # NoIo /\ io_ret.op = "get_refresh_ids" =>
        /\ io_ret.status = "ok"
        /\ OnePerStaleBucket(io_ret.ids, io_ret.buckets, io_ret.at)

\* the same for the calls that return
C33_RefreshIdsWhenReturned ==
    io_ret # NoIo /\ io_ret.op = "get_refresh_ids" /\ io_ret.status = "ok" =>
        OnePerStaleBucket(io_ret.ids, io_ret.buckets, io_ret.at)

\* the ids looked up: the least and the greatest id, the contact ids and
\* the upper bound of every bucket
LookupIds == {MinId, MaxId} \cup ContactIds
                 \cup {rt_buckets[i].upper : i \in 1..Len(rt_buckets)}

\* C34: bucket lookup is total: in every reachable table state and for
\* every 160-bit id, including FF..FF and the ids equal to a bucket's upper
\* bound, bucket_index_of finds a bucket, so its unwrap never fails when it
\* is called from add_contact, remove_contact, is_new_node or
\* find_neighbours
C34_LookupIsTotal ==
    /\ rt_status = "ok" =>
           \A id \in LookupIds : ~ lookup_panics(rt_buckets, id)
    /\ rt_status = "panic" /\ rt_call.called =>
           ~ lookup_panics(rt_buckets, rt_call.node.id)

\* the primary contacts of the whole table that find_neighbours may return
EligibleContacts(target, exclude) ==
    {n \in UNION {{rt_buckets[i].nodes[id] : id \in DOMAIN rt_buckets[i].nodes} :
                     i \in 1..Len(rt_buckets)} :
        /\ n.id # target.id
        /\ exclude.some => ~ same_home_as(n, exclude.v)}

\* C35: find_neighbours(target, k, exclude) returns exactly min(k, e)
\* contacts, where e is the number of primary contacts in the whole table
\* that are eligible (id other than the target's, endpoint other than
\* exclude's), and no eligible contact that is left out is strictly closer
\* to the target than a returned one; the outward bucket walk visits every
\* bucket of the table before it stops short of k results
C35_NeighboursAreTheClosest ==
    (rt_call.called /\ rt_call.op = "find_neighbours" /\ rt_status = "ok")
        => LET nodes == rt_call.nodes
               target == rt_call.node
               k == IF rt_call.k.some THEN rt_call.k.v ELSE rt_ksize
               eligible == EligibleContacts(target, rt_call.exclude)
               e == Cardinality(eligible)
               returned == {nodes[i] : i \in 1..Len(nodes)}
           IN  /\ Len(nodes) = IF k < e THEN k ELSE e
               /\ returned \subseteq eligible
               /\ \A m \in eligible \ returned, n \in returned :
                      ~ IdLess(XorDistance(m.id, target.id),
                               XorDistance(n.id, target.id))

\* the count alone: min(k, e) contacts are returned
C35_NeighboursCount ==
    (rt_call.called /\ rt_call.op = "find_neighbours" /\ rt_status = "ok")
        => LET k == IF rt_call.k.some THEN rt_call.k.v ELSE rt_ksize
               e == Cardinality(EligibleContacts(rt_call.node, rt_call.exclude))
           IN  Len(rt_call.nodes) = IF k < e THEN k ELSE e

\* no contact left out is at a smaller dist_to than a returned one
C35_NeighboursByDistTo ==
    (rt_call.called /\ rt_call.op = "find_neighbours" /\ rt_status = "ok")
        => LET nodes == rt_call.nodes
               target == rt_call.node
               returned == {nodes[i] : i \in 1..Len(nodes)}
           IN  \A m \in EligibleContacts(target, rt_call.exclude) \ returned :
                   \A n \in returned :
                       dist_to(target.id, m.id) >= dist_to(target.id, n.id)

\* remove_contact(n) leaves no bucket holding n's id, and a bucket that held
\* n as a primary contact beside a non-empty replacement set keeps the size
\* of its primary set
RemovedAndPromoted(n) ==
    /\ \A i \in 1..Len(rt_buckets') : n.id \notin Held(rt_buckets'[i])
    /\ \A i \in 1..Len(rt_buckets) :
           (/\ n.id \in DOMAIN rt_buckets[i].nodes
            /\ DOMAIN rt_buckets[i].extra_nodes # {})
               => Cardinality(DOMAIN rt_buckets'[i].nodes)
                      = Cardinality(DOMAIN rt_buckets[i].nodes)

\* C36: after remove_contact(n) returns, no bucket of the table holds a
\* contact with n's id, neither in its primary set nor in its replacement
\* set; if n was a primary contact of a bucket whose replacement set was
\* not empty, one replacement is promoted, so that bucket's primary size is
\* unchanged
C36_RemovedContactIsGone ==
    [][\A n \in Contacts :
           (RemoveContact(n) /\ rt_status' = "ok") => RemovedAndPromoted(n)]_vars

\* the same for the bucket the lookup finds: it no longer holds n's id, and
\* its primary set keeps its size when a replacement was there to promote
RemovedFromItsBucket(n) ==
    LET i == bucket_index_of(rt_buckets, n.id)
    IN  /\ n.id \notin Held(rt_buckets'[i])
        /\ (/\ n.id \in DOMAIN rt_buckets[i].nodes
            /\ DOMAIN rt_buckets[i].extra_nodes # {})
               => /\ Cardinality(DOMAIN rt_buckets'[i].nodes)
                         = Cardinality(DOMAIN rt_buckets[i].nodes)
                  /\ Cardinality(DOMAIN rt_buckets'[i].extra_nodes)
                         = Cardinality(DOMAIN rt_buckets[i].extra_nodes) - 1

C36_RemovedFromLookupBucket ==
    [][\A n \in Contacts :
           (RemoveContact(n) /\ rt_status' = "ok") => RemovedFromItsBucket(n)]_vars

\* C37: in every bucket of every reachable routing table, no id is in both
\* the primary set and the replacement set, and a non-empty replacement set
\* implies that the primary set holds exactly K contacts; this holds after
\* adds, removes with promotion, and splits
C37_ReplacementsOnlyBesideFullPrimary ==
    \A i \in 1..Len(rt_buckets) :
        /\ DOMAIN rt_buckets[i].nodes \cap DOMAIN rt_buckets[i].extra_nodes = {}
        /\ DOMAIN rt_buckets[i].extra_nodes # {}
               => Cardinality(DOMAIN rt_buckets[i].nodes) = rt_ksize

\* a bucket of a split table with K = 1 holds its primary contact and a
\* replacement
C37_SplitBucketWithReplacement ==
    /\ rt_status = "ok"
    /\ rt_ksize = 1
    /\ Len(rt_buckets) > 1
    /\ \E i \in 1..Len(rt_buckets) :
           /\ Cardinality(DOMAIN rt_buckets[i].nodes) = 1
           /\ DOMAIN rt_buckets[i].extra_nodes # {}

\* the byte move of the shift that was made
ByteMove ==
    IF io_ret.op = "shl" THEN shl_copy(io_arg.n \div 8)
    ELSE shr_copy(io_arg.n \div 8)

\* C38: for every shift count n with 8 <= n < 160, the byte move performed
\* by <<= and by >>= on a 160-bit value reads and writes only byte indices
\* 0..19 of that value: it moves exactly 20 - floor(n/8) bytes and never
\* touches memory outside the 20-byte array
C38_ByteMoveWithinArray ==
    (io_ret # NoIo /\ io_arg.n >= 8 /\ io_arg.n < SIZE * 8) =>
        /\ ByteMove.count = SIZE - (io_arg.n \div 8)
        /\ \A i \in 0..(ByteMove.count - 1) :
               /\ ByteMove.src + i \in 0..(SIZE - 1)
               /\ ByteMove.dst + i \in 0..(SIZE - 1)
        /\ io_ret.status # "ub"

\* C39: parse_magnet_uri terminates on every input URI: each iteration of
\* the loop over the comma-separated tokens of a select-only ("so")
\* parameter consumes at least one byte of the remaining value, also when
\* the token is empty ("so=,1"), is a range with a missing bound ("so=-1",
\* "so=1-"), has reversed bounds, or holds an index above the maximum of
\* 10000
C39_EachTokenConsumesAByte ==
    [][SoIteration =>
           \/ io_ret'.pc = "err"
           \/ Len(io_ret'.value) < Len(io_ret.value)]_vars

\* the loop is left, or the parse ends with an error
C39_SelectOnlyTerminates == <>(io_ret # NoIo /\ io_ret.pc # "loop")

\* the iterations on a token that is a valid index or range consume it
C39_ValidTokensConsumed ==
    [][(SoIteration /\ select_token(split_string(io_ret.value, 44)[1]).kind
                           = "set")
           => Len(io_ret'.value) < Len(io_ret.value)]_vars

====
